---- MODULE Spec2Model ----
(***************************************************************************)
(* CoDiPack JacobianReuseTape: recording streams, forward and reverse      *)
(* replay, clearAdjoints, and the editing operations erase and append.     *)
(*                                                                         *)
(* A tape is a record of five streams (statement, Jacobian, low level      *)
(* function token, fixed bytes, dynamic bytes).  Stream offsets are the    *)
(* 0-based offsets of the C++ code; element k of a stream is s[k + 1].     *)
(* The adjoint vector is a sequence; the slot of identifier i is a[i + 1]. *)
(***************************************************************************)
EXTENDS Integers, Sequences, FiniteSets, TLC

VARIABLES tape, helper, adjoints, pc, cur, endPos, llfCalls, hist,
          helperAdjoints, adjointsCalls, indexManager, live, access, visited

vars == <<tape, helper, adjoints, pc, cur, endPos, llfCalls, hist,
          helperAdjoints, adjointsCalls, indexManager, live, access, visited>>

(***************************************************************************)
(* Bounds and program constants                                            *)
(***************************************************************************)
\* Largest number of statements held by the two tapes of the recording
\* specification together.
MaxStmts == 4

\* Largest number of statements of a tape replayed by SpecReplay.
MaxReplayStmts == 2

\* Largest number of operations in one behaviour of the replay specification.
MaxOps == 2

\* Config::StatementLowLevelFunctionTag, the reserved argument count.
StatementLowLevelFunctionTag == 255

\* IndexManager::getLargestCreatedIndex() for the recorded statements.
LargestCreatedIndex == 4

(***************************************************************************)
(* Streams and positions                                                   *)
(***************************************************************************)
EmptyTape ==
    [stmt |-> <<>>, jac |-> <<>>, token |-> <<>>, fixed |-> <<>>, dyn |-> <<>>]

getZeroPosition ==
    [stmt |-> 0, jac |-> 0, token |-> 0, fixed |-> 0, dyn |-> 0]

getPosition(t) ==
    [stmt |-> Len(t.stmt), jac |-> Len(t.jac), token |-> Len(t.token),
     fixed |-> Len(t.fixed), dyn |-> Len(t.dyn)]

\* The elements of stream s at the 0-based offsets [from, to).
Slice(s, from, to) == SubSeq(s, from + 1, to)

\* Mutant: the statement entry is written over the last one of the stream.
pushStmtData_Overwrites(t, index, numberOfArguments) ==
    IF t.stmt = <<>>
    THEN [t EXCEPT !.stmt = Append(@, [lhs |-> index, n |-> numberOfArguments])]
    ELSE [t EXCEPT !.stmt[Len(t.stmt)] = [lhs |-> index, n |-> numberOfArguments]]

pushStmtData(t, index, numberOfArguments) ==
    [t EXCEPT !.stmt = Append(@, [lhs |-> index, n |-> numberOfArguments])]

pushJacobiData(t, jacobian, index) ==
    [t EXCEPT !.jac = Append(@, [jac |-> jacobian, id |-> index])]

RECURSIVE pushJacobians(_, _, _)
pushJacobians(t, args, k) ==
    IF k > Len(args) THEN t
    ELSE pushJacobians(pushJacobiData(t, args[k].jac, args[k].id), args, k + 1)

\* store(lhs, rhs): one statement entry and one Jacobian entry per argument.
store(t, lhs, args) ==
    pushJacobians(pushStmtData(t, lhs, Len(args)), args, 1)

\* pushLowLevelFunction followed by the caller filling both byte views.
pushLowLevelFunction(t, token, fixedBytes, dynamicBytes) ==
    LET s == pushStmtData(t, 0, StatementLowLevelFunctionTag)
    IN  [s EXCEPT !.token = Append(@, token),
                  !.fixed = @ \o fixedBytes,
                  !.dyn = @ \o dynamicBytes]

resetTo(t, pos) ==
    [stmt |-> Slice(t.stmt, 0, pos.stmt), jac |-> Slice(t.jac, 0, pos.jac),
     token |-> Slice(t.token, 0, pos.token), fixed |-> Slice(t.fixed, 0, pos.fixed),
     dyn |-> Slice(t.dyn, 0, pos.dyn)]

reset(t) == resetTo(t, getZeroPosition)

(***************************************************************************)
(* Low level function entries (the callback table)                         *)
(*                                                                         *)
(* Token 1: one fixed byte holding the number of dynamic bytes.            *)
(* Token 2: two fixed bytes, no dynamic bytes.                             *)
(***************************************************************************)
LlfFixedSize(token) == IF token = 1 THEN 1 ELSE 2

LlfDynamicSize(token, fixedBytes) == IF token = 1 THEN fixedBytes[1] ELSE 0

\* callLowLevelFunction: reads the token at the token cursor (before it in
\* reverse), lets the entry consume its bytes through the two views and
\* moves the three cursors past the block.
callLowLevelFunction(t, direction, c) ==
    IF direction = "Forward"
    THEN LET token == t.token[c.token + 1]
             fsz == LlfFixedSize(token)
             fb == Slice(t.fixed, c.fixed, c.fixed + fsz)
             dsz == LlfDynamicSize(token, fb)
             db == Slice(t.dyn, c.dyn, c.dyn + dsz)
         IN  [token |-> token, fixedBytes |-> fb, dynamicBytes |-> db,
              cur |-> [c EXCEPT !.token = @ + 1, !.fixed = @ + fsz, !.dyn = @ + dsz]]
    ELSE LET token == t.token[c.token]
             fsz == LlfFixedSize(token)
             fb == Slice(t.fixed, c.fixed - fsz, c.fixed)
             dsz == LlfDynamicSize(token, fb)
             db == Slice(t.dyn, c.dyn - dsz, c.dyn)
         IN  [token |-> token, fixedBytes |-> fb, dynamicBytes |-> db,
              cur |-> [c EXCEPT !.token = @ - 1, !.fixed = @ - fsz, !.dyn = @ - dsz]]

(***************************************************************************)
(* Replay.  A replay state is [adj, cur, calls, visited]: the adjoint (or   *)
(* tangent) vector, the five cursors, the callbacks invoked so far and the *)
(* offsets of the statements the loop has read so far.                     *)
(***************************************************************************)
\* JacobianBaseTape::incrementTangents: lhsAdjoint += jacobian * adjoint[id]
\* for the next numberOfArguments entries, moving the Jacobian cursor up.
RECURSIVE incrementTangents(_, _, _, _, _)
incrementTangents(t, adj, lhsAdjoint, numberOfArguments, curJacobianPos) ==
    IF numberOfArguments = 0
    THEN [lhs |-> lhsAdjoint, jac |-> curJacobianPos]
    ELSE LET e == t.jac[curJacobianPos + 1]
         IN  incrementTangents(t, adj, lhsAdjoint + e.jac * adj[e.id + 1],
                               numberOfArguments - 1, curJacobianPos + 1)

\* JacobianBaseTape::incrementAdjoints: adjoint[id] += jacobian * lhsAdjoint
\* for the previous numberOfArguments entries, moving the Jacobian cursor down.
RECURSIVE incrementAdjoints(_, _, _, _, _)
incrementAdjoints(t, adj, lhsAdjoint, numberOfArguments, curJacobianPos) ==
    IF numberOfArguments = 0
    THEN [adj |-> adj, jac |-> curJacobianPos]
    ELSE LET e == t.jac[curJacobianPos]
         IN  incrementAdjoints(t, [adj EXCEPT ![e.id + 1] = @ + e.jac * lhsAdjoint],
                               lhsAdjoint, numberOfArguments - 1, curJacobianPos - 1)

CallRecord(r, callType) ==
    [type |-> callType, token |-> r.token, fixedBytes |-> r.fixedBytes,
     dynamicBytes |-> r.dynamicBytes]

\* Mutant: the weighted sum is accumulated into the old tangent of the target.
ForwardStatement_Accumulate(t, s) ==
    LET st == t.stmt[s.cur.stmt + 1]
        r == incrementTangents(t, s.adj, s.adj[st.lhs + 1], st.n, s.cur.jac)
    IN  [s EXCEPT !.adj[st.lhs + 1] = r.lhs, !.cur.jac = r.jac]

\* Mutant: the target is looked up at the last statement of the stream, not
\* at the statement cursor.
ForwardStatement_TargetAtStreamEnd(t, s) ==
    LET st == t.stmt[s.cur.stmt + 1]
        target == t.stmt[Len(t.stmt)].lhs
        r == incrementTangents(t, s.adj, 0, st.n, s.cur.jac)
    IN  [s EXCEPT !.adj[target + 1] = r.lhs, !.cur.jac = r.jac]

\* Mutant: the Jacobian cursor is not moved past the statement's entries.
ForwardStatement_KeepCursor(t, s) ==
    LET st == t.stmt[s.cur.stmt + 1]
        r == incrementTangents(t, s.adj, 0, st.n, s.cur.jac)
    IN  [s EXCEPT !.adj[st.lhs + 1] = r.lhs]

\* Mutant: the slot of the target is cleared before the arguments are read.
ForwardStatement_ClearsTargetFirst(t, s) ==
    LET st == t.stmt[s.cur.stmt + 1]
        cleared == [s.adj EXCEPT ![st.lhs + 1] = 0]
        r == incrementTangents(t, cleared, 0, st.n, s.cur.jac)
    IN  [s EXCEPT !.adj[st.lhs + 1] = r.lhs, !.cur.jac = r.jac]

\* Forward, ordinary statement: the tangent of the target is overwritten.
ForwardStatement(t, s) ==
    LET st == t.stmt[s.cur.stmt + 1]
        r == incrementTangents(t, s.adj, 0, st.n, s.cur.jac)
    IN  [s EXCEPT !.adj[st.lhs + 1] = r.lhs, !.cur.jac = r.jac]

\* Mutant: a block without dynamic bytes is passed over without the call.
ForwardLowLevelFunction_SkipsEmptyBlock(t, s) ==
    LET r == callLowLevelFunction(t, "Forward", s.cur)
    IN  IF r.dynamicBytes = <<>>
        THEN [s EXCEPT !.cur = r.cur]
        ELSE [s EXCEPT !.cur = r.cur, !.calls = Append(@, CallRecord(r, "Forward"))]

\* Forward, low level function statement: the forward callback is invoked.
ForwardLowLevelFunction(t, s) ==
    LET r == callLowLevelFunction(t, "Forward", s.cur)
    IN  [s EXCEPT !.cur = r.cur, !.calls = Append(@, CallRecord(r, "Forward"))]

\* One iteration of the forward loop.
ForwardIteration(t, s) ==
    LET argsSize == t.stmt[s.cur.stmt + 1].n
        x == IF StatementLowLevelFunctionTag = argsSize
             THEN ForwardLowLevelFunction(t, s)
             ELSE ForwardStatement(t, s)
    IN  [x EXCEPT !.cur.stmt = @ + 1, !.visited = Append(@, s.cur.stmt)]

\* Mutant: the loop leaves one statement before the bound.
ForwardLoopCondition_StopEarly(curStmtPos, endStmtPos) == curStmtPos + 1 < endStmtPos

ForwardLoopCondition(curStmtPos, endStmtPos) == curStmtPos < endStmtPos

RECURSIVE internalEvaluateForward_EvalStatements(_, _, _)
internalEvaluateForward_EvalStatements(t, s, endStmtPos) ==
    IF ForwardLoopCondition(s.cur.stmt, endStmtPos)
    THEN internalEvaluateForward_EvalStatements(t, ForwardIteration(t, s), endStmtPos)
    ELSE s

\* Mutant: the slot of the target is not zeroed.
ReverseStatement_NoZero(t, s) ==
    LET st == t.stmt[s.cur.stmt + 1]
        lhsAdjoint == s.adj[st.lhs + 1]
        r == incrementAdjoints(t, s.adj, lhsAdjoint, st.n, s.cur.jac)
    IN  [s EXCEPT !.adj = r.adj, !.cur.jac = r.jac]

\* Mutant: the slot of the target is zeroed after the distribution.
ReverseStatement_ZeroAfter(t, s) ==
    LET st == t.stmt[s.cur.stmt + 1]
        lhsAdjoint == s.adj[st.lhs + 1]
        r == incrementAdjoints(t, s.adj, lhsAdjoint, st.n, s.cur.jac)
    IN  [s EXCEPT !.adj = [r.adj EXCEPT ![st.lhs + 1] = 0], !.cur.jac = r.jac]

\* Mutant: the Jacobian cursor is not moved past the statement's entries.
ReverseStatement_KeepCursor(t, s) ==
    LET st == t.stmt[s.cur.stmt + 1]
        lhsAdjoint == s.adj[st.lhs + 1]
        zeroed == [s.adj EXCEPT ![st.lhs + 1] = 0]
        r == incrementAdjoints(t, zeroed, lhsAdjoint, st.n, s.cur.jac)
    IN  [s EXCEPT !.adj = r.adj]

\* Mutant: the Jacobian entries are read downwards from the end of the
\* stream, not from the Jacobian cursor.
ReverseStatement_JacobiansFromStreamEnd(t, s) ==
    LET st == t.stmt[s.cur.stmt + 1]
        lhsAdjoint == s.adj[st.lhs + 1]
        zeroed == [s.adj EXCEPT ![st.lhs + 1] = 0]
        r == incrementAdjoints(t, zeroed, lhsAdjoint, st.n, Len(t.jac))
    IN  [s EXCEPT !.adj = r.adj, !.cur.jac = r.jac]

\* Mutant: the adjoint of the target is read after its slot is zeroed.
ReverseStatement_ReadsAfterZero(t, s) ==
    LET st == t.stmt[s.cur.stmt + 1]
        zeroed == [s.adj EXCEPT ![st.lhs + 1] = 0]
        lhsAdjoint == zeroed[st.lhs + 1]
        r == incrementAdjoints(t, zeroed, lhsAdjoint, st.n, s.cur.jac)
    IN  [s EXCEPT !.adj = r.adj, !.cur.jac = r.jac]

\* Reverse, ordinary statement (the statement cursor is already decremented):
\* the adjoint of the target is read, zeroed and distributed.
ReverseStatement(t, s) ==
    LET st == t.stmt[s.cur.stmt + 1]
        lhsAdjoint == s.adj[st.lhs + 1]
        zeroed == [s.adj EXCEPT ![st.lhs + 1] = 0]
        r == incrementAdjoints(t, zeroed, lhsAdjoint, st.n, s.cur.jac)
    IN  [s EXCEPT !.adj = r.adj, !.cur.jac = r.jac]

\* Reverse, low level function statement: the reverse callback is invoked.
ReverseLowLevelFunction(t, s) ==
    LET r == callLowLevelFunction(t, "Reverse", s.cur)
    IN  [s EXCEPT !.cur = r.cur, !.calls = Append(@, CallRecord(r, "Reverse"))]

\* Mutant: the statement cursor is moved down by two where two statements
\* are left.
ReverseIteration_SkipsOne(t, s) ==
    LET step == IF s.cur.stmt >= 2 THEN 2 ELSE 1
        d == [s EXCEPT !.cur.stmt = @ - step, !.visited = Append(@, s.cur.stmt - step)]
        argsSize == t.stmt[d.cur.stmt + 1].n
    IN  IF StatementLowLevelFunctionTag = argsSize
        THEN ReverseLowLevelFunction(t, d)
        ELSE ReverseStatement(t, d)

\* One iteration of the reverse loop.
ReverseIteration(t, s) ==
    LET d == [s EXCEPT !.cur.stmt = @ - 1, !.visited = Append(@, s.cur.stmt - 1)]
        argsSize == t.stmt[d.cur.stmt + 1].n
    IN  IF StatementLowLevelFunctionTag = argsSize
        THEN ReverseLowLevelFunction(t, d)
        ELSE ReverseStatement(t, d)

\* Mutant: the loop stops one statement early.
ReverseLoopCondition_StopEarly(curStmtPos, endStmtPos) == curStmtPos > endStmtPos + 1

ReverseLoopCondition(curStmtPos, endStmtPos) == curStmtPos > endStmtPos

RECURSIVE internalEvaluateReverse_EvalStatements(_, _, _)
internalEvaluateReverse_EvalStatements(t, s, endStmtPos) ==
    IF ReverseLoopCondition(s.cur.stmt, endStmtPos)
    THEN internalEvaluateReverse_EvalStatements(t, ReverseIteration(t, s), endStmtPos)
    ELSE s

\* JacobianBaseTape::checkAdjointSize: the vector covers every created index.
checkAdjointSize(adj) ==
    IF LargestCreatedIndex >= Len(adj)
    THEN adj \o [i \in 1..(LargestCreatedIndex + 1 - Len(adj)) |-> 0]
    ELSE adj

\* Mutant: the bounds check excludes the last slot of the vector.
clearFunc_OffByOne(adj, index, adjointsSize) ==
    IF index < adjointsSize - 1 THEN [adj EXCEPT ![index + 1] = 0] ELSE adj

\* The lambda clearFunc of clearAdjoints.
clearFunc(adj, index, adjointsSize) ==
    IF index < adjointsSize THEN [adj EXCEPT ![index + 1] = 0] ELSE adj

\* statementData.forEachReverse(startStmt, endStmt, clearFunc)
RECURSIVE forEachReverse_clearFunc(_, _, _, _, _)
forEachReverse_clearFunc(t, adj, startStmt, endStmt, adjointsSize) ==
    IF startStmt > endStmt
    THEN forEachReverse_clearFunc(
             t, clearFunc(adj, t.stmt[startStmt].lhs, adjointsSize),
             startStmt - 1, endStmt, adjointsSize)
    ELSE adj

\* The statement offsets statementData.forEachReverse hands to the function.
RECURSIVE forEachReverse_Visited(_, _)
forEachReverse_Visited(startStmt, endStmt) ==
    IF startStmt > endStmt
    THEN <<startStmt - 1>> \o forEachReverse_Visited(startStmt - 1, endStmt)
    ELSE <<>>

\* Mutant: the two bounds are handed to forEachReverse in the wrong order.
clearAdjoints_SwappedRange(t, adj, start, end) ==
    forEachReverse_clearFunc(t, adj, end.stmt, start.stmt, Len(adj))

clearAdjoints(t, adj, start, end) ==
    forEachReverse_clearFunc(t, adj, start.stmt, end.stmt, Len(adj))

\* enum class AdjointsManagement; the default of clearAdjoints is Automatic.
AdjointsManagement == {"Automatic", "Manual"}

Call(name) == [call |-> name]

\* The calls clearFunc makes on the adjoint vector for one statement.
clearFuncCalls(index, adjointsSize) ==
    IF index < adjointsSize THEN <<[call |-> "write", index |-> index]>> ELSE <<>>

\* The calls on the adjoint vector made under forEachReverse.
RECURSIVE forEachReverse_clearFuncCalls(_, _, _, _)
forEachReverse_clearFuncCalls(t, startStmt, endStmt, adjointsSize) ==
    IF startStmt > endStmt
    THEN clearFuncCalls(t.stmt[startStmt].lhs, adjointsSize)
             \o forEachReverse_clearFuncCalls(t, startStmt - 1, endStmt, adjointsSize)
    ELSE <<>>

\* Mutant: the size of the vector is read before beginUse is called.
clearAdjointsCalls_SizeBeforeBeginUse(t, adj, start, end, adjointsManagement) ==
    <<Call("size")>>
        \o (IF "Automatic" = adjointsManagement THEN <<Call("beginUse")>> ELSE <<>>)
        \o forEachReverse_clearFuncCalls(t, start.stmt, end.stmt, Len(adj))
        \o (IF "Automatic" = adjointsManagement THEN <<Call("endUse")>> ELSE <<>>)

\* The calls clearAdjoints makes on the adjoint vector, in order.
clearAdjointsCalls(t, adj, start, end, adjointsManagement) ==
    (IF "Automatic" = adjointsManagement THEN <<Call("beginUse")>> ELSE <<>>)
        \o <<Call("size")>>
        \o forEachReverse_clearFuncCalls(t, start.stmt, end.stmt, Len(adj))
        \o (IF "Automatic" = adjointsManagement THEN <<Call("endUse")>> ELSE <<>>)

\* evaluateForward(start, end) on vector adj: the replay state at return.
evaluateForward(t, adj, start, end) ==
    internalEvaluateForward_EvalStatements(
        t, [adj |-> checkAdjointSize(adj), cur |-> start, calls |-> <<>>,
            visited |-> <<>>], end.stmt)

\* evaluateReverse(start, end) on vector adj: the replay state at return.
evaluateReverse(t, adj, start, end) ==
    internalEvaluateReverse_EvalStatements(
        t, [adj |-> checkAdjointSize(adj), cur |-> start, calls |-> <<>>,
            visited |-> <<>>], end.stmt)

(***************************************************************************)
(* Editing                                                                 *)
(***************************************************************************)
\* Mutant: the dynamic data cursor is not moved past the copied block.
AppendLowLevelFunction_StaleDynamicCursor(srcTape, a) ==
    LET token == srcTape.token[a.cur.token + 1]
        r == callLowLevelFunction(srcTape, "Forward", a.cur)
        fixedSize == Len(r.fixedBytes)
        dynamicSize == Len(r.dynamicBytes)
        fixedStore == Slice(srcTape.fixed, a.cur.fixed, a.cur.fixed + fixedSize)
        dynamicStore == Slice(srcTape.dyn, a.cur.dyn, a.cur.dyn + dynamicSize)
    IN  [dst |-> pushLowLevelFunction(a.dst, token, fixedStore, dynamicStore),
         cur |-> [r.cur EXCEPT !.dyn = a.cur.dyn]]

\* internalAppend, low level function branch.  a = [dst, cur].
AppendLowLevelFunction(srcTape, a) ==
    LET token == srcTape.token[a.cur.token + 1]
        r == callLowLevelFunction(srcTape, "Forward", a.cur)
        fixedSize == Len(r.fixedBytes)
        dynamicSize == Len(r.dynamicBytes)
        fixedStore == Slice(srcTape.fixed, a.cur.fixed, a.cur.fixed + fixedSize)
        dynamicStore == Slice(srcTape.dyn, a.cur.dyn, a.cur.dyn + dynamicSize)
    IN  [dst |-> pushLowLevelFunction(a.dst, token, fixedStore, dynamicStore),
         cur |-> r.cur]

\* Mutant: the inner loop stops one Jacobian entry early.
RECURSIVE AppendJacobians_DropsLast(_, _, _, _)
AppendJacobians_DropsLast(srcTape, dst, curJacobianPos, curJacobianEnd) ==
    IF curJacobianPos + 1 < curJacobianEnd
    THEN AppendJacobians_DropsLast(
             srcTape,
             pushJacobiData(dst, srcTape.jac[curJacobianPos + 1].jac,
                            srcTape.jac[curJacobianPos + 1].id),
             curJacobianPos + 1, curJacobianEnd)
    ELSE dst

\* internalAppend, the inner loop pushing the Jacobian entries.
RECURSIVE AppendJacobians(_, _, _, _)
AppendJacobians(srcTape, dst, curJacobianPos, curJacobianEnd) ==
    IF curJacobianPos < curJacobianEnd
    THEN AppendJacobians(
             srcTape,
             pushJacobiData(dst, srcTape.jac[curJacobianPos + 1].jac,
                            srcTape.jac[curJacobianPos + 1].id),
             curJacobianPos + 1, curJacobianEnd)
    ELSE dst

\* Mutant: the Jacobian cursor is not moved past the copied entries.
AppendStatement_KeepCursor(srcTape, a) ==
    LET st == srcTape.stmt[a.cur.stmt + 1]
        curJacobianEnd == a.cur.jac + st.n
    IN  [dst |-> AppendJacobians(srcTape, pushStmtData(a.dst, st.lhs, st.n),
                                 a.cur.jac, curJacobianEnd),
         cur |-> a.cur]

\* internalAppend, ordinary statement branch (manual statement push).
AppendStatement(srcTape, a) ==
    LET st == srcTape.stmt[a.cur.stmt + 1]
        curJacobianEnd == a.cur.jac + st.n
    IN  [dst |-> AppendJacobians(srcTape, pushStmtData(a.dst, st.lhs, st.n),
                                 a.cur.jac, curJacobianEnd),
         cur |-> [a.cur EXCEPT !.jac = curJacobianEnd]]

AppendIteration(srcTape, a) ==
    LET argsSize == srcTape.stmt[a.cur.stmt + 1].n
        x == IF StatementLowLevelFunctionTag = argsSize
             THEN AppendLowLevelFunction(srcTape, a)
             ELSE AppendStatement(srcTape, a)
    IN  [x EXCEPT !.cur.stmt = @ + 1]

RECURSIVE internalAppend(_, _, _)
internalAppend(srcTape, a, endStmtPos) ==
    IF a.cur.stmt < endStmtPos
    THEN internalAppend(srcTape, AppendIteration(srcTape, a), endStmtPos)
    ELSE a

\* Mutant: the destination is emptied before the source range is pushed.
append_OntoEmptied(dst, srcTape, start, end) ==
    internalAppend(srcTape, [dst |-> reset(dst), cur |-> start], end.stmt).dst

\* dst.append(srcTape, start, end): the destination afterwards.
append(dst, srcTape, start, end) ==
    internalAppend(srcTape, [dst |-> dst, cur |-> start], end.stmt).dst

\* Mutant: the tail stored in the helper tape starts at start, not at end.
erase_TailFromStart(t, start, end, emptyTape) ==
    LET h1 == append(emptyTape, t, start, getPosition(t))
        t1 == resetTo(t, start)
        t2 == append(t1, h1, getZeroPosition, getPosition(h1))
    IN  [tape |-> t2, helper |-> reset(h1)]

\* Mutant: the tape is reset to end, not to start.
erase_ResetToEnd(t, start, end, emptyTape) ==
    LET h1 == append(emptyTape, t, end, getPosition(t))
        t1 == resetTo(t, end)
        t2 == append(t1, h1, getZeroPosition, getPosition(h1))
    IN  [tape |-> t2, helper |-> reset(h1)]

\* Mutant: the helper tape is not reset before erase returns.
erase_KeepsHelper(t, start, end, emptyTape) ==
    LET h1 == append(emptyTape, t, end, getPosition(t))
        t1 == resetTo(t, start)
        t2 == append(t1, h1, getZeroPosition, getPosition(h1))
    IN  [tape |-> t2, helper |-> h1]

\* Mutant: the tail stored in the helper tape is not appended back.
erase_DropsTail(t, start, end, emptyTape) ==
    LET h1 == append(emptyTape, t, end, getPosition(t))
        t1 == resetTo(t, start)
    IN  [tape |-> t1, helper |-> reset(h1)]

\* t.erase(start, end, emptyTape): the tape and the helper tape afterwards.
erase(t, start, end, emptyTape) ==
    LET h1 == append(emptyTape, t, end, getPosition(t))
        t1 == resetTo(t, start)
        t2 == append(t1, h1, getZeroPosition, getPosition(h1))
    IN  [tape |-> t2, helper |-> reset(h1)]

\* t.erase(start, end): instantiates a temporary tape as the helper.
eraseWithTemporary(t, start, end) == erase(t, start, end, EmptyTape).tape

(***************************************************************************)
(* Index manager (reuse scheme) and active variables                       *)
(***************************************************************************)
\* The identifier of a variable that is not active, and the dummy slot.
InactiveIndex == 0

\* The active variables of the program.
Variables == {"v", "w"}

\* A reuse index manager after construction: nothing created, nothing free.
NewIndexManager == [largestCreatedIndex |-> 0, unusedIndices |-> <<>>]

\* The gradient access record before any access.
NoAccess == [op |-> "none"]

\* Mutant: the reissued identifier stays in the list of unused identifiers.
generate_KeepsUnused(im) ==
    IF im.unusedIndices # <<>>
    THEN [index |-> im.unusedIndices[Len(im.unusedIndices)], im |-> im]
    ELSE [index |-> im.largestCreatedIndex + 1,
          im |-> [im EXCEPT !.largestCreatedIndex = @ + 1]]

\* generate(): an identifier from the free list if there is one, otherwise
\* the next identifier never created.
generate(im) ==
    IF im.unusedIndices # <<>>
    THEN [index |-> im.unusedIndices[Len(im.unusedIndices)],
          im |-> [im EXCEPT !.unusedIndices = SubSeq(@, 1, Len(@) - 1)]]
    ELSE [index |-> im.largestCreatedIndex + 1,
          im |-> [im EXCEPT !.largestCreatedIndex = @ + 1]]

\* free(id): the identifier of a live variable goes back to the pool.
free(im, index) ==
    IF index = InactiveIndex THEN im
    ELSE [im EXCEPT !.unusedIndices = Append(@, index)]

(***************************************************************************)
(* Gradient access (GradientAccessTapeInterface)                           *)
(***************************************************************************)
\* enum class BoundsChecking; the default of every access is True.
BoundsChecking == {"True", "False"}

\* The vector implicitly resized so that the slot of identifier exists.
resizeFor(adj, identifier) ==
    IF identifier >= Len(adj)
    THEN adj \o [i \in 1..(identifier + 1 - Len(adj)) |-> 0]
    ELSE adj

\* An access without bounds checking: the caller guarantees the size; an
\* identifier beyond the vector is a usage fault.
uncheckedAccess(adj, identifier) ==
    [adj |-> adj, slot |-> identifier, fault |-> identifier >= Len(adj)]

\* Gradient& gradient(identifier, boundsChecking)
gradient(adj, identifier, boundsChecking) ==
    IF boundsChecking = "True"
    THEN [adj |-> resizeFor(adj, identifier), slot |-> identifier, fault |-> FALSE]
    ELSE uncheckedAccess(adj, identifier)

\* Gradient const& gradient(identifier, boundsChecking) const
gradientConst(adj, identifier, boundsChecking) ==
    IF boundsChecking = "True"
    THEN [adj |-> adj, slot |-> IF identifier >= Len(adj) THEN 0 ELSE identifier,
          fault |-> FALSE]
    ELSE uncheckedAccess(adj, identifier)

\* The result of an access through the reference r: no value after a fault.
Written(r, value) ==
    IF r.fault THEN [adj |-> r.adj, result |-> "none", fault |-> TRUE]
    ELSE [adj |-> [r.adj EXCEPT ![r.slot + 1] = value], result |-> "none",
          fault |-> FALSE]

Read(r) ==
    IF r.fault THEN [adj |-> r.adj, result |-> "none", fault |-> TRUE]
    ELSE [adj |-> r.adj, result |-> r.adj[r.slot + 1], fault |-> FALSE]

\* void setGradient(identifier, gradient, boundsChecking)
setGradient(adj, identifier, value, boundsChecking) ==
    Written(gradient(adj, identifier, boundsChecking), value)

\* Mutant: the read goes through the mutable access, which resizes.
getGradient_Resizes(adj, identifier, boundsChecking) ==
    Read(gradient(adj, identifier, boundsChecking))

\* Gradient const& getGradient(identifier, boundsChecking) const
getGradient(adj, identifier, boundsChecking) ==
    Read(gradientConst(adj, identifier, boundsChecking))

\* LhsExpressionInterface::gradient(): the tape's access, default checking.
LhsGradient(adj, identifier) == gradient(adj, identifier, "True")

\* LhsExpressionInterface::gradient() const
LhsGradientConst(adj, identifier) == gradientConst(adj, identifier, "True")

\* LhsExpressionInterface::getGradient() const: cast().gradient()
LhsGetGradient(adj, identifier) == Read(LhsGradientConst(adj, identifier))

\* Mutant: the value is assigned to a copy of the gradient, not through the
\* reference.
LhsSetGradient_WritesCopy(adj, identifier, value) ==
    [adj |-> LhsGradient(adj, identifier).adj, result |-> "none", fault |-> FALSE]

\* LhsExpressionInterface::setGradient(g): cast().gradient() = g
LhsSetGradient(adj, identifier, value) == Written(LhsGradient(adj, identifier), value)

(***************************************************************************)
(* Inputs                                                                  *)
(***************************************************************************)
Arg(jacobian, index) == [jac |-> jacobian, id |-> index]

\* What the front end hands to store: a target and its (partial, identifier)
\* pairs.  x = 1, y = 2, t1 = 3, z = 4.
StatementInputs ==
    { [kind |-> "stmt", lhs |-> 1, args |-> <<>>],
      [kind |-> "stmt", lhs |-> 3, args |-> <<Arg(3, 1), Arg(2, 2)>>],
      [kind |-> "stmt", lhs |-> 4, args |-> <<Arg(1, 3), Arg(1, 1)>>],
      [kind |-> "stmt", lhs |-> 2, args |-> <<Arg(2, 1), Arg(3, 1)>>],
      [kind |-> "stmt", lhs |-> 3, args |-> <<Arg(5, 3), Arg(2, 4)>>] }

\* What a caller hands to pushLowLevelFunction and writes to the views.
LowLevelFunctionInputs ==
    { [kind |-> "llf", token |-> 1, fixed |-> <<1>>, dyn |-> <<7>>],
      [kind |-> "llf", token |-> 2, fixed |-> <<8, 9>>, dyn |-> <<>>] }

\* The statements stored while the tapes are edited.
EditStatementInputs ==
    { [kind |-> "stmt", lhs |-> 3, args |-> <<Arg(3, 1), Arg(2, 2)>>],
      [kind |-> "stmt", lhs |-> 3, args |-> <<Arg(5, 3), Arg(2, 4)>>] }

RecordInputs == StatementInputs \cup LowLevelFunctionInputs

EditInputs == EditStatementInputs \cup LowLevelFunctionInputs

Record(t, item) ==
    IF item.kind = "stmt"
    THEN store(t, item.lhs, item.args)
    ELSE pushLowLevelFunction(t, item.token, item.fixed, item.dyn)

\* The tapes that recording at most n items produces.
RECURSIVE RecordedTapes(_)
RecordedTapes(n) ==
    IF n = 0 THEN {EmptyTape}
    ELSE LET shorter == RecordedTapes(n - 1)
         IN  shorter \cup {Record(t, item) : t \in shorter, item \in RecordInputs}

ZeroVector(n) == [i \in 1..n |-> 0]

UnitVector(n, index) == [i \in 1..n |-> IF i = index + 1 THEN 1 ELSE 0]

\* Adjoint vectors left by the caller: zero, unit seeds, one vector with all
\* slots different, and two vectors shorter than the largest identifier.
SeedVectors ==
    {ZeroVector(LargestCreatedIndex + 1)}
        \cup {UnitVector(LargestCreatedIndex + 1, i) : i \in 1..LargestCreatedIndex}
        \cup {[i \in 1..(LargestCreatedIndex + 1) |-> IF i = 1 THEN 0 ELSE 2 * i - 1]}
        \cup {<<0>>, <<0, 1, 1>>}

\* The position getPosition() returned when k statements were recorded.
RECURSIVE PosAt(_, _)
PosAt(t, k) ==
    IF k = 0 THEN getZeroPosition
    ELSE LET p == PosAt(t, k - 1)
             st == t.stmt[k]
         IN  IF st.n = StatementLowLevelFunctionTag
             THEN [callLowLevelFunction(t, "Forward", p).cur EXCEPT !.stmt = k]
             ELSE [p EXCEPT !.stmt = k, !.jac = @ + st.n]

StmtCount(t) == Len(t.stmt)

Last == hist[Len(hist)]

(***************************************************************************)
(* Replay actions (SpecReplay)                                             *)
(***************************************************************************)
OpRecord(name, k1, k2) ==
    [name |-> name, start |-> k1, end |-> k2, before |-> adjoints,
     tapeBefore |-> tape, helperBefore |-> helper,
     helperAdjointsBefore |-> helperAdjoints]

\* What no replay operation of the tape touches: the second tape's adjoint
\* vector, the index manager, the active variables and the gradient access.
OutsideReplay == UNCHANGED <<helperAdjoints, indexManager, live, access>>

\* A second operation continues where the first evaluation stopped, or
\* evaluates the range that was just cleared.
MayStart(name, k1, k2) ==
    /\ pc = "idle"
    /\ Len(hist) < MaxOps
    /\ IF hist = <<>> THEN TRUE
       ELSE IF Last.name = "clearAdjoints"
            THEN name = "evaluateReverse" /\ k1 = Last.start /\ k2 = Last.end
            ELSE name = Last.name /\ k1 = Last.end

EvaluateForwardBegin(k1, k2) ==
    /\ MayStart("evaluateForward", k1, k2)
    /\ k1 <= k2
    /\ adjoints' = checkAdjointSize(adjoints)
    /\ cur' = PosAt(tape, k1)
    /\ endPos' = PosAt(tape, k2)
    /\ pc' = "forward"
    /\ hist' = Append(hist, OpRecord("evaluateForward", k1, k2))
    /\ UNCHANGED <<tape, helper, llfCalls>>
    /\ visited' = <<>>
    /\ UNCHANGED adjointsCalls
    /\ OutsideReplay

EvaluateForwardStep ==
    /\ pc = "forward"
    /\ ForwardLoopCondition(cur.stmt, endPos.stmt)
    /\ LET s == ForwardIteration(tape, [adj |-> adjoints, cur |-> cur, calls |-> llfCalls,
                                    visited |-> visited])
       IN  /\ adjoints' = s.adj
           /\ cur' = s.cur
           /\ llfCalls' = s.calls
           /\ visited' = s.visited
    /\ UNCHANGED <<tape, helper, pc, endPos, hist>>
    /\ UNCHANGED adjointsCalls
    /\ OutsideReplay

EvaluateForwardEnd ==
    /\ pc = "forward"
    /\ ~ForwardLoopCondition(cur.stmt, endPos.stmt)
    /\ pc' = "idle"
    /\ UNCHANGED <<tape, helper, adjoints, cur, endPos, llfCalls, hist>>
    /\ UNCHANGED <<adjointsCalls, visited>>
    /\ OutsideReplay

EvaluateReverseBegin(k1, k2) ==
    /\ MayStart("evaluateReverse", k1, k2)
    /\ k1 >= k2
    /\ adjoints' = checkAdjointSize(adjoints)
    /\ cur' = PosAt(tape, k1)
    /\ endPos' = PosAt(tape, k2)
    /\ pc' = "reverse"
    /\ hist' = Append(hist, OpRecord("evaluateReverse", k1, k2))
    /\ UNCHANGED <<tape, helper, llfCalls>>
    /\ visited' = <<>>
    /\ UNCHANGED adjointsCalls
    /\ OutsideReplay

EvaluateReverseStep ==
    /\ pc = "reverse"
    /\ ReverseLoopCondition(cur.stmt, endPos.stmt)
    /\ LET s == ReverseIteration(tape, [adj |-> adjoints, cur |-> cur, calls |-> llfCalls,
                                    visited |-> visited])
       IN  /\ adjoints' = s.adj
           /\ cur' = s.cur
           /\ llfCalls' = s.calls
           /\ visited' = s.visited
    /\ UNCHANGED <<tape, helper, pc, endPos, hist>>
    /\ UNCHANGED adjointsCalls
    /\ OutsideReplay

EvaluateReverseEnd ==
    /\ pc = "reverse"
    /\ ~ReverseLoopCondition(cur.stmt, endPos.stmt)
    /\ pc' = "idle"
    /\ UNCHANGED <<tape, helper, adjoints, cur, endPos, llfCalls, hist>>
    /\ UNCHANGED <<adjointsCalls, visited>>
    /\ OutsideReplay

ClearAdjoints(k1, k2) ==
    /\ MayStart("clearAdjoints", k1, k2)
    /\ k1 >= k2
    /\ adjoints' = clearAdjoints(tape, adjoints, PosAt(tape, k1), PosAt(tape, k2))
    /\ hist' = Append(hist, OpRecord("clearAdjoints", k1, k2))
    /\ \E adjointsManagement \in AdjointsManagement :
          adjointsCalls' =
              <<[call |-> "clearAdjoints", adjointsManagement |-> adjointsManagement]>>
                  \o clearAdjointsCalls(tape, adjoints, PosAt(tape, k1), PosAt(tape, k2),
                                        adjointsManagement)
    /\ visited' = forEachReverse_Visited(PosAt(tape, k1).stmt, PosAt(tape, k2).stmt)
    /\ UNCHANGED <<tape, helper, pc, cur, endPos, llfCalls>>
    /\ OutsideReplay

InitReplay ==
    /\ tape \in RecordedTapes(MaxReplayStmts)
    /\ helper = EmptyTape
    /\ adjoints \in SeedVectors
    /\ pc = "idle"
    /\ cur = getZeroPosition
    /\ endPos = getZeroPosition
    /\ llfCalls = <<>>
    /\ hist = <<>>
    /\ helperAdjoints = <<0>>
    /\ adjointsCalls = <<>>
    /\ indexManager = NewIndexManager
    /\ live = [v \in Variables |-> InactiveIndex]
    /\ access = NoAccess
    /\ visited = <<>>

NextReplay ==
    \/ \E k1, k2 \in 0..StmtCount(tape) : EvaluateForwardBegin(k1, k2)
    \/ EvaluateForwardStep
    \/ EvaluateForwardEnd
    \/ \E k1, k2 \in 0..StmtCount(tape) : EvaluateReverseBegin(k1, k2)
    \/ EvaluateReverseStep
    \/ EvaluateReverseEnd
    \/ \E k1, k2 \in 0..StmtCount(tape) : ClearAdjoints(k1, k2)

SpecReplay == InitReplay /\ [][NextReplay]_vars

(***************************************************************************)
(* Replay and erase with positions the caller should not pass (SpecMisuse) *)
(*                                                                         *)
(* A caller may still hold the positions getPosition() returned during an  *)
(* earlier recording u, from before the tape was reset and recorded anew,  *)
(* and may hand erase a start that lies after the end.                     *)
(***************************************************************************)
\* The positions getPosition() returned during an earlier recording.
AllEarlierPositions ==
    UNION {{PosAt(u, k) : k \in 0..StmtCount(u)} : u \in RecordedTapes(MaxReplayStmts)}

\* Those taken after k statements.
EarlierPositions(k) == {q \in AllEarlierPositions : q.stmt = k}

\* p is not after q in any stream.
NotAfter(p, q) ==
    /\ p.stmt <= q.stmt /\ p.jac <= q.jac /\ p.token <= q.token
    /\ p.fixed <= q.fixed /\ p.dyn <= q.dyn

\* evaluateForward(start, end) with the end q of an earlier recording.
EvaluateForwardOutdated(k1, k2, q) ==
    /\ pc = "idle"
    /\ hist = <<>>
    /\ k1 <= k2
    /\ NotAfter(PosAt(tape, k1), q)
    /\ adjoints' = checkAdjointSize(adjoints)
    /\ cur' = PosAt(tape, k1)
    /\ endPos' = q
    /\ pc' = "forward"
    /\ hist' = Append(hist, OpRecord("evaluateForward", k1, k2))
    /\ UNCHANGED <<tape, helper, llfCalls>>
    /\ visited' = <<>>
    /\ UNCHANGED adjointsCalls
    /\ OutsideReplay

\* evaluateReverse(start, end) with the end q of an earlier recording.
EvaluateReverseOutdated(k1, k2, q) ==
    /\ pc = "idle"
    /\ hist = <<>>
    /\ k1 >= k2
    /\ NotAfter(q, PosAt(tape, k1))
    /\ adjoints' = checkAdjointSize(adjoints)
    /\ cur' = PosAt(tape, k1)
    /\ endPos' = q
    /\ pc' = "reverse"
    /\ hist' = Append(hist, OpRecord("evaluateReverse", k1, k2))
    /\ UNCHANGED <<tape, helper, llfCalls>>
    /\ visited' = <<>>
    /\ UNCHANGED adjointsCalls
    /\ OutsideReplay

\* The forward loop has left; the data store that drove it compares the
\* cursors with the bounds of the range and fails on a difference.
EvaluateForwardReturn ==
    /\ pc = "forward"
    /\ ~ForwardLoopCondition(cur.stmt, endPos.stmt)
    /\ pc' = IF cur = endPos THEN "idle" ELSE "fatal"
    /\ UNCHANGED <<tape, helper, adjoints, cur, endPos, llfCalls, hist>>
    /\ UNCHANGED <<adjointsCalls, visited>>
    /\ OutsideReplay

EvaluateReverseReturn ==
    /\ pc = "reverse"
    /\ ~ReverseLoopCondition(cur.stmt, endPos.stmt)
    /\ pc' = IF cur = endPos THEN "idle" ELSE "fatal"
    /\ UNCHANGED <<tape, helper, adjoints, cur, endPos, llfCalls, hist>>
    /\ UNCHANGED <<adjointsCalls, visited>>
    /\ OutsideReplay

\* tape.erase(start, end) with start after end.
EraseInvertedRange(k1, k2) ==
    /\ pc = "idle"
    /\ hist = <<>>
    /\ k1 > k2
    /\ tape' = eraseWithTemporary(tape, PosAt(tape, k1), PosAt(tape, k2))
    /\ hist' = Append(hist, OpRecord("eraseInvertedRange", k1, k2))
    /\ UNCHANGED <<helper, adjoints, pc, cur, endPos, llfCalls>>
    /\ UNCHANGED <<adjointsCalls, visited>>
    /\ OutsideReplay

NextMisuse ==
    \/ \E k1, k2 \in 0..StmtCount(tape) :
          \E q \in EarlierPositions(k2) : EvaluateForwardOutdated(k1, k2, q)
    \/ EvaluateForwardStep
    \/ EvaluateForwardReturn
    \/ \E k1, k2 \in 0..StmtCount(tape) :
          \E q \in EarlierPositions(k2) : EvaluateReverseOutdated(k1, k2, q)
    \/ EvaluateReverseStep
    \/ EvaluateReverseReturn
    \/ \E k1, k2 \in 0..StmtCount(tape) : EraseInvertedRange(k1, k2)

SpecMisuse == InitReplay /\ [][NextMisuse]_vars

(***************************************************************************)
(* The walks of replay and editing, step by step (SpecWalk)                *)
(*                                                                         *)
(* append and erase run as the loop of internalAppend runs: one statement  *)
(* of the source per step.  The forward walk that drives internalAppend    *)
(* and the two loops of replay leave when the statement cursor reaches the *)
(* bound, so every started call proceeds until it returns.                 *)
(***************************************************************************)
\* helper.append(tape, start, end): the call starts.
AppendBegin(k1, k2) ==
    /\ pc = "idle"
    /\ hist = <<>>
    /\ k1 <= k2
    /\ cur' = PosAt(tape, k1)
    /\ endPos' = PosAt(tape, k2)
    /\ pc' = "append"
    /\ visited' = <<>>
    /\ hist' = Append(hist, OpRecord("appendToHelper", k1, k2))
    /\ UNCHANGED <<tape, helper, adjoints, llfCalls, adjointsCalls>>
    /\ OutsideReplay

\* One iteration of the loop of internalAppend, from tape onto helper.
AppendStep ==
    /\ pc = "append"
    /\ cur.stmt < endPos.stmt
    /\ LET a == AppendIteration(tape, [dst |-> helper, cur |-> cur])
       IN  /\ helper' = a.dst
           /\ cur' = a.cur
    /\ visited' = Append(visited, cur.stmt)
    /\ UNCHANGED <<tape, adjoints, pc, endPos, llfCalls, hist, adjointsCalls>>
    /\ OutsideReplay

AppendEnd ==
    /\ pc = "append"
    /\ ~(cur.stmt < endPos.stmt)
    /\ pc' = "idle"
    /\ UNCHANGED <<tape, helper, adjoints, cur, endPos, llfCalls, hist, adjointsCalls,
                   visited>>
    /\ OutsideReplay

\* tape.erase(start, end, helper): emptyTape.append(*this, end, getPosition())
\* starts.
EraseBegin(k1, k2) ==
    /\ pc = "idle"
    /\ hist = <<>>
    /\ k1 <= k2
    /\ cur' = PosAt(tape, k2)
    /\ endPos' = getPosition(tape)
    /\ pc' = "eraseStoreTail"
    /\ visited' = <<>>
    /\ hist' = Append(hist, OpRecord("erase", k1, k2))
    /\ UNCHANGED <<tape, helper, adjoints, llfCalls, adjointsCalls>>
    /\ OutsideReplay

\* One statement of the tail is pushed onto the helper tape.
EraseStoreTailStep ==
    /\ pc = "eraseStoreTail"
    /\ cur.stmt < endPos.stmt
    /\ LET a == AppendIteration(tape, [dst |-> helper, cur |-> cur])
       IN  /\ helper' = a.dst
           /\ cur' = a.cur
    /\ visited' = Append(visited, cur.stmt)
    /\ UNCHANGED <<tape, adjoints, pc, endPos, llfCalls, hist, adjointsCalls>>
    /\ OutsideReplay

\* The tail is stored: resetTo(start), and the append of the helper tape's
\* content starts.
EraseResetTo ==
    /\ pc = "eraseStoreTail"
    /\ ~(cur.stmt < endPos.stmt)
    /\ tape' = resetTo(tape, PosAt(tape, Last.start))
    /\ cur' = getZeroPosition
    /\ endPos' = getPosition(helper)
    /\ pc' = "eraseAppendTail"
    /\ UNCHANGED <<helper, adjoints, llfCalls, hist, adjointsCalls, visited>>
    /\ OutsideReplay

\* One statement of the helper tape is pushed back onto the tape.
EraseAppendTailStep ==
    /\ pc = "eraseAppendTail"
    /\ cur.stmt < endPos.stmt
    /\ LET a == AppendIteration(helper, [dst |-> tape, cur |-> cur])
       IN  /\ tape' = a.dst
           /\ cur' = a.cur
    /\ visited' = Append(visited, cur.stmt)
    /\ UNCHANGED <<helper, adjoints, pc, endPos, llfCalls, hist, adjointsCalls>>
    /\ OutsideReplay

\* The tail is back: emptyTape.reset(), and erase returns.
EraseEnd ==
    /\ pc = "eraseAppendTail"
    /\ ~(cur.stmt < endPos.stmt)
    /\ helper' = reset(helper)
    /\ pc' = "idle"
    /\ UNCHANGED <<tape, adjoints, cur, endPos, llfCalls, hist, adjointsCalls, visited>>
    /\ OutsideReplay

\* The steps inside a call that has started.
WalkStep ==
    \/ EvaluateForwardStep
    \/ EvaluateForwardEnd
    \/ EvaluateReverseStep
    \/ EvaluateReverseEnd
    \/ AppendStep
    \/ AppendEnd
    \/ EraseStoreTailStep
    \/ EraseResetTo
    \/ EraseAppendTailStep
    \/ EraseEnd

NextWalk ==
    \/ \E k1, k2 \in 0..StmtCount(tape) : EvaluateForwardBegin(k1, k2)
    \/ \E k1, k2 \in 0..StmtCount(tape) : EvaluateReverseBegin(k1, k2)
    \/ \E k1, k2 \in 0..StmtCount(tape) : ClearAdjoints(k1, k2)
    \/ \E k1, k2 \in 0..StmtCount(tape) : AppendBegin(k1, k2)
    \/ \E k1, k2 \in 0..StmtCount(tape) : EraseBegin(k1, k2)
    \/ WalkStep

SpecWalk == InitReplay /\ [][NextWalk]_vars /\ WF_vars(WalkStep)

(***************************************************************************)
(* Properties of replay                                                    *)
(***************************************************************************)
IsOrdinary(st) == st.n # StatementLowLevelFunctionTag

\* The Jacobian entries recorded for statement k (1-based) of tape t.
ArgsOf(t, k) == Slice(t.jac, PosAt(t, k - 1).jac, PosAt(t, k - 1).jac + t.stmt[k].n)

\* Sum of partial * value over the entries of args whose identifier is index.
RECURSIVE Contribution(_, _, _, _)
Contribution(args, j, index, value) ==
    IF j > Len(args) THEN 0
    ELSE (IF args[j].id = index THEN args[j].jac * value ELSE 0)
            + Contribution(args, j + 1, index, value)

\* Sum of partial * vector[identifier] over the entries of args.
RECURSIVE WeightedSum(_, _, _)
WeightedSum(args, j, vector) ==
    IF j > Len(args) THEN 0
    ELSE args[j].jac * vector[args[j].id + 1] + WeightedSum(args, j + 1, vector)

Finished(name) == pc = "idle" /\ hist # <<>> /\ Last.name = name

\* C1: every step of evaluateReverse processes the statement right before
\* the previous one (strictly decreasing recording order); for an ordinary
\* statement the target's adjoint is read, its slot becomes zero, then
\* partial * (value read) is added to the slot of each argument, and no
\* other slot changes.
C1_ReverseStatementEffect ==
    [][(pc = "reverse" /\ cur' # cur) =>
          /\ cur'.stmt = cur.stmt - 1
          /\ LET st == tape.stmt[cur.stmt]
                 read == adjoints[st.lhs + 1]
                 args == ArgsOf(tape, cur.stmt)
             IN  IsOrdinary(st) =>
                   /\ Len(adjoints') = Len(adjoints)
                   /\ \A i \in 1..Len(adjoints) :
                        adjoints'[i] =
                            (IF i = st.lhs + 1 THEN 0 ELSE adjoints[i])
                                + Contribution(args, 1, i - 1, read)]_vars

\* A reverse step has just distributed a nonzero adjoint over two arguments.
W1_ReverseStatementActed ==
    /\ pc = "reverse"
    /\ cur.stmt = Last.start - 1
    /\ IsOrdinary(tape.stmt[cur.stmt + 1])
    /\ tape.stmt[cur.stmt + 1].n = 2
    /\ checkAdjointSize(Last.before)[tape.stmt[cur.stmt + 1].lhs + 1] # 0
    /\ adjoints # checkAdjointSize(Last.before)

\* C2: every step of evaluateForward processes the statement right after
\* the previous one (strictly increasing recording order); for an ordinary
\* statement the target's tangent slot is overwritten with the sum of
\* partial * tangent[argument], and no other slot changes.
C2_ForwardStatementEffect ==
    [][(pc = "forward" /\ cur' # cur) =>
          /\ cur'.stmt = cur.stmt + 1
          /\ LET st == tape.stmt[cur.stmt + 1]
                 args == ArgsOf(tape, cur.stmt + 1)
             IN  IsOrdinary(st) =>
                   adjoints' =
                       [adjoints EXCEPT ![st.lhs + 1] = WeightedSum(args, 1, adjoints)]]_vars

\* A forward step has just overwritten a nonzero tangent of its target.
W2_ForwardStatementActed ==
    /\ pc = "forward"
    /\ cur.stmt = Last.start + 1
    /\ IsOrdinary(tape.stmt[cur.stmt])
    /\ tape.stmt[cur.stmt].n = 2
    /\ checkAdjointSize(Last.before)[tape.stmt[cur.stmt].lhs + 1] # 0
    /\ adjoints[tape.stmt[cur.stmt].lhs + 1]
           # checkAdjointSize(Last.before)[tape.stmt[cur.stmt].lhs + 1]

\* The tape of t1 = x * y; z = t1 + x recorded at x = 2, y = 3.
ScenarioTape ==
    store(store(EmptyTape, 3, <<Arg(3, 1), Arg(2, 2)>>), 4, <<Arg(1, 3), Arg(1, 1)>>)

ScenarioReverseDone ==
    /\ tape = ScenarioTape
    /\ Finished("evaluateReverse")
    /\ Len(hist) = 1
    /\ Last.start = 2
    /\ Last.end = 0
    /\ Last.before = UnitVector(LargestCreatedIndex + 1, 4)

\* C3: on the scenario tape, with adjoint(z) = 1 and all other adjoints
\* zero, evaluateReverse over the whole tape ends with adjoint(x) = 4,
\* adjoint(y) = 2 and adjoint(t1) = 0.
C3_ScenarioGradient ==
    ScenarioReverseDone =>
        adjoints[1 + 1] = 4 /\ adjoints[2 + 1] = 2 /\ adjoints[3 + 1] = 0

W3_ScenarioReverseDone == ScenarioReverseDone

\* The derivative of the value that identifier index holds after the first
\* k statements with respect to the value identifier x held before the
\* first statement: the chain rule over the recorded partials.
RECURSIVE ChainRule(_, _, _, _)
ChainRule(t, k, index, x) ==
    IF k = 0 THEN (IF index = x THEN 1 ELSE 0)
    ELSE IF IsOrdinary(t.stmt[k]) /\ t.stmt[k].lhs = index
         THEN LET args == ArgsOf(t, k)
                  D[j \in 0..Len(args)] ==
                      IF j = 0 THEN 0
                      ELSE D[j - 1] + args[j].jac * ChainRule(t, k - 1, args[j].id, x)
              IN  D[Len(args)]
         ELSE ChainRule(t, k - 1, index, x)

UnitSeedReverseDone ==
    /\ Finished("evaluateReverse")
    /\ Len(hist) = 1
    /\ StmtCount(tape) > 0
    /\ Last.start = StmtCount(tape)
    /\ Last.end = 0
    /\ IsOrdinary(tape.stmt[StmtCount(tape)])
    /\ Last.before = UnitVector(LargestCreatedIndex + 1, tape.stmt[StmtCount(tape)].lhs)

\* C4: after seeding the adjoint of the final target with 1 (all others 0)
\* and running evaluateReverse over the whole tape, the adjoint slot of every
\* identifier holds the chain-rule gradient of the final target with
\* respect to that identifier.
C4_ReverseGradient ==
    UnitSeedReverseDone =>
        \A x \in 1..LargestCreatedIndex :
            adjoints[x + 1] =
                ChainRule(tape, StmtCount(tape), tape.stmt[StmtCount(tape)].lhs, x)

\* The gradient was computed over two statements, the second reading the
\* target of the first, and it is sums over more than one path.
W4_UnitSeedReverseDone ==
    /\ UnitSeedReverseDone
    /\ StmtCount(tape) = 2
    /\ \E j \in 1..Len(ArgsOf(tape, 2)) : ArgsOf(tape, 2)[j].id = tape.stmt[1].lhs
    /\ \E x \in 1..LargestCreatedIndex : adjoints[x + 1] > 3

TwoEvaluationsDone(name) ==
    /\ Finished(name)
    /\ Len(hist) = 2
    /\ hist[1].name = name

\* C5: evaluating a range in two consecutive calls split at a position p2
\* (forward p1..p2 then p2..p3, reverse p3..p2 then p2..p1) leaves the same
\* vector, and invokes the same callbacks on the same bytes, as one call
\* over the whole range.
C5_RangeComposable ==
    /\ TwoEvaluationsDone("evaluateForward") =>
          LET whole == evaluateForward(tape, hist[1].before, PosAt(tape, hist[1].start),
                                       PosAt(tape, hist[2].end))
          IN  adjoints = whole.adj /\ llfCalls = whole.calls
    /\ TwoEvaluationsDone("evaluateReverse") =>
          LET whole == evaluateReverse(tape, hist[1].before, PosAt(tape, hist[1].start),
                                       PosAt(tape, hist[2].end))
          IN  adjoints = whole.adj /\ llfCalls = whole.calls

\* A reverse evaluation of two statements was split in the middle and the
\* second half changed the vector.
W5_SplitReverseDone ==
    /\ TwoEvaluationsDone("evaluateReverse")
    /\ hist[1].start = 2 /\ hist[1].end = 1 /\ hist[2].end = 0
    /\ IsOrdinary(tape.stmt[1]) /\ tape.stmt[1].n > 0
    /\ IsOrdinary(tape.stmt[2]) /\ tape.stmt[2].n > 0
    /\ adjoints # hist[2].before

\* The identifiers that are targets of the statements in (k2, k1].
TargetsIn(t, k1, k2) == {t.stmt[k].lhs : k \in (k2 + 1)..k1}

ClearThenReverseDone ==
    /\ Finished("evaluateReverse")
    /\ Len(hist) = 2
    /\ hist[1].name = "clearAdjoints"

FreshZeroReverse ==
    evaluateReverse(tape, ZeroVector(LargestCreatedIndex + 1),
                    PosAt(tape, hist[2].start), PosAt(tape, hist[2].end)).adj

\* C6 as stated: clearAdjoints(start, end) followed by evaluateReverse over
\* the same range leaves the same vector as evaluating the range once on a
\* freshly zeroed vector, whatever earlier passes left in the vector
\* (stated for the ranges that hold at least one statement).
X6_ClearThenReverseIsFresh ==
    (ClearThenReverseDone /\ hist[2].start > hist[2].end) => adjoints = FreshZeroReverse

\* C6 amended: over a range of ordinary statements, clearAdjoints followed by
\* evaluateReverse leaves, in the slot of every identifier that is the
\* target of a statement of the range, the value a freshly zeroed vector
\* gets; every other slot keeps what earlier passes left in it.
C6_ClearThenReverseTargetsFresh ==
    (ClearThenReverseDone
        /\ \A k \in (hist[2].end + 1)..hist[2].start : IsOrdinary(tape.stmt[k])) =>
        \A i \in 1..Len(adjoints) :
            adjoints[i] =
                IF (i - 1) \in TargetsIn(tape, hist[2].start, hist[2].end)
                THEN FreshZeroReverse[i]
                ELSE checkAdjointSize(hist[1].before)[i]

\* clearAdjoints zeroed a nonzero target slot, the range was then evaluated,
\* and a slot that is no target of the range still holds an earlier value.
W6_ClearThenReverseDone ==
    /\ ClearThenReverseDone
    /\ \A k \in (hist[2].end + 1)..hist[2].start : IsOrdinary(tape.stmt[k])
    /\ \E i \in 1..Len(hist[1].before) :
          /\ (i - 1) \in TargetsIn(tape, hist[2].start, hist[2].end)
          /\ hist[1].before[i] # 0
    /\ \E i \in 1..Len(adjoints) :
          /\ (i - 1) \notin TargetsIn(tape, hist[2].start, hist[2].end)
          /\ adjoints[i] # 0

\* C7: clearAdjoints(start, end) zeroes the slot of the target identifier of
\* every statement of the range that lies inside the adjoint vector and
\* leaves every other slot, the vector's size and both tapes unchanged.
C7_ClearAdjointsFrame ==
    (hist # <<>> /\ Last.name = "clearAdjoints") =>
        /\ Len(adjoints) = Len(Last.before)
        /\ \A i \in 1..Len(adjoints) :
              adjoints[i] =
                  IF (i - 1) \in TargetsIn(tape, Last.start, Last.end)
                  THEN 0
                  ELSE Last.before[i]
        /\ tape = Last.tapeBefore
        /\ helper = Last.helperBefore

\* clearAdjoints zeroed a nonzero target slot, skipped a target beyond the
\* vector, and kept the nonzero slot of an identifier that is only an
\* argument in the range.
W7_ClearAdjointsActed ==
    /\ hist # <<>> /\ Last.name = "clearAdjoints"
    /\ \E k \in (Last.end + 1)..Last.start :
          tape.stmt[k].lhs >= Len(adjoints)
    /\ \E k \in (Last.end + 1)..Last.start :
          /\ tape.stmt[k].lhs < Len(adjoints)
          /\ Last.before[tape.stmt[k].lhs + 1] # 0
    /\ \E k \in (Last.end + 1)..Last.start :
          /\ IsOrdinary(tape.stmt[k])
          /\ \E j \in 1..Len(ArgsOf(tape, k)) :
                LET a == ArgsOf(tape, k)[j].id
                IN  /\ a \notin TargetsIn(tape, Last.start, Last.end)
                    /\ a < Len(adjoints)
                    /\ adjoints[a + 1] # 0

(***************************************************************************)
(* Recording and editing actions (Spec).  hist holds the last operation.   *)
(***************************************************************************)
Init ==
    /\ tape = EmptyTape
    /\ helper = EmptyTape
    /\ adjoints = <<0>>
    /\ pc = "idle"
    /\ cur = getZeroPosition
    /\ endPos = getZeroPosition
    /\ llfCalls = <<>>
    /\ hist = <<>>
    /\ helperAdjoints = <<0>>
    /\ adjointsCalls = <<>>
    /\ indexManager = NewIndexManager
    /\ live = [v \in Variables |-> InactiveIndex]
    /\ access = NoAccess
    /\ visited = <<>>

Untouched ==
    UNCHANGED <<adjoints, pc, cur, endPos, llfCalls,
                helperAdjoints, adjointsCalls, indexManager, live, access, visited>>

MayRecord == StmtCount(tape) + StmtCount(helper) < MaxStmts

\* tape.store(lhs, rhs)
Store(item) ==
    /\ MayRecord
    /\ tape' = store(tape, item.lhs, item.args)
    /\ hist' = <<OpRecord("store", StmtCount(tape), StmtCount(tape) + 1)>>
    /\ UNCHANGED helper
    /\ Untouched

\* tape.pushLowLevelFunction(token, fixedSize, dynamicSize, ...) and the writes
PushLowLevelFunction(item) ==
    /\ MayRecord
    /\ tape' = pushLowLevelFunction(tape, item.token, item.fixed, item.dyn)
    /\ hist' = <<OpRecord("pushLowLevelFunction", StmtCount(tape), StmtCount(tape) + 1)>>
    /\ UNCHANGED helper
    /\ Untouched

\* The same two recording operations on the second tape.
HelperRecord(item) ==
    /\ MayRecord
    /\ helper' = Record(helper, item)
    /\ hist' = <<OpRecord("helperRecord", StmtCount(helper), StmtCount(helper) + 1)>>
    /\ UNCHANGED tape
    /\ Untouched

\* tape.append(helper, start, end)
AppendFromHelper(k1, k2) ==
    /\ k1 <= k2
    /\ StmtCount(tape) + StmtCount(helper) + (k2 - k1) <= MaxStmts
    /\ tape' = append(tape, helper, PosAt(helper, k1), PosAt(helper, k2))
    /\ hist' = <<OpRecord("append", k1, k2)>>
    /\ UNCHANGED helper
    /\ Untouched

\* tape.erase(start, end)
Erase(k1, k2) ==
    /\ k1 <= k2
    /\ tape' = eraseWithTemporary(tape, PosAt(tape, k1), PosAt(tape, k2))
    /\ hist' = <<OpRecord("erase", k1, k2)>>
    /\ UNCHANGED helper
    /\ Untouched

\* tape.erase(start, end, helper)
EraseWithHelper(k1, k2) ==
    /\ k1 <= k2
    /\ LET r == erase(tape, PosAt(tape, k1), PosAt(tape, k2), helper)
       IN  /\ tape' = r.tape
           /\ helper' = r.helper
    /\ hist' = <<OpRecord("eraseWithHelper", k1, k2)>>
    /\ Untouched

\* tape.reset()
Reset ==
    /\ tape # EmptyTape
    /\ tape' = reset(tape)
    /\ hist' = <<OpRecord("reset", 0, 0)>>
    /\ UNCHANGED helper
    /\ Untouched

Next ==
    \/ \E item \in EditStatementInputs : Store(item)
    \/ \E item \in LowLevelFunctionInputs : PushLowLevelFunction(item)
    \/ \E item \in EditInputs : HelperRecord(item)
    \/ \E k1, k2 \in 0..StmtCount(helper) : AppendFromHelper(k1, k2)
    \/ \E k1, k2 \in 0..StmtCount(tape) : Erase(k1, k2)
    \/ \E k1, k2 \in 0..StmtCount(tape) : EraseWithHelper(k1, k2)
    \/ Reset

Spec == Init /\ [][Next]_vars

(***************************************************************************)
(* Properties of editing                                                   *)
(***************************************************************************)
\* The content of the five streams in [p, q), stream by stream.
Content(t, p, q) ==
    [stmt |-> Slice(t.stmt, p.stmt, q.stmt), jac |-> Slice(t.jac, p.jac, q.jac),
     token |-> Slice(t.token, p.token, q.token),
     fixed |-> Slice(t.fixed, p.fixed, q.fixed), dyn |-> Slice(t.dyn, p.dyn, q.dyn)]

Concat(a, b) ==
    [stmt |-> a.stmt \o b.stmt, jac |-> a.jac \o b.jac, token |-> a.token \o b.token,
     fixed |-> a.fixed \o b.fixed, dyn |-> a.dyn \o b.dyn]

\* erase ran last, with a helper tape that was empty on entry.
Erased ==
    /\ hist # <<>>
    /\ \/ Last.name = "erase"
       \/ Last.name = "eraseWithHelper" /\ Last.helperBefore = EmptyTape

\* C8: after erase(start, end) the five streams hold exactly the content of
\* [zero, start) followed by the content of [end, tape end) of the tape
\* before the call, in order.
C8_EraseContent ==
    Erased =>
        LET b == Last.tapeBefore
        IN  tape = Concat(Content(b, getZeroPosition, PosAt(b, Last.start)),
                          Content(b, PosAt(b, Last.end), getPosition(b)))

\* A middle statement was erased from a tape of three, the kept tail being a
\* low level function block and the kept prefix a statement with arguments.
W8_ErasedMiddle ==
    /\ Erased
    /\ StmtCount(Last.tapeBefore) = 3
    /\ Last.start = 1 /\ Last.end = 2
    /\ Last.tapeBefore.stmt[1].n = 2
    /\ ~IsOrdinary(Last.tapeBefore.stmt[3])
    /\ Len(Last.tapeBefore.dyn) > 0

\* What was recorded as statement k of tape t: the input of store or of
\* pushLowLevelFunction.
ItemOf(t, k) ==
    IF IsOrdinary(t.stmt[k])
    THEN [kind |-> "stmt", lhs |-> t.stmt[k].lhs, args |-> ArgsOf(t, k)]
    ELSE [kind |-> "llf", token |-> t.token[PosAt(t, k).token],
          fixed |-> Slice(t.fixed, PosAt(t, k - 1).fixed, PosAt(t, k).fixed),
          dyn |-> Slice(t.dyn, PosAt(t, k - 1).dyn, PosAt(t, k).dyn)]

\* The tape on which statements k1 + 1 .. k2 of tape t are recorded onto dst.
RECURSIVE RecordRange(_, _, _, _)
RecordRange(dst, t, k1, k2) ==
    IF k1 >= k2 THEN dst
    ELSE RecordRange(Record(dst, ItemOf(t, k1 + 1)), t, k1 + 1, k2)

\* The tape on which the statements of t were recorded without [k1, k2).
NeverRecorded(t, k1, k2) ==
    RecordRange(RecordRange(EmptyTape, t, 0, k1), t, k2, StmtCount(t))

\* Forward and reverse replay of the whole tape from every seed vector.
ReplayResults(t) ==
    [v \in SeedVectors |->
        LET f == evaluateForward(t, v, getZeroPosition, getPosition(t))
            r == evaluateReverse(t, v, getPosition(t), getZeroPosition)
        IN  <<f.adj, f.calls, r.adj, r.calls>>]

\* C9: a tape edited by erase(start, end), and a tape extended by appending a
\* range of another tape, replay forward and reverse from every starting
\* vector like the tape on which the kept statements alone were recorded.
C9_EditedReplaysAsNeverRecorded ==
    /\ Erased =>
          ReplayResults(tape)
              = ReplayResults(NeverRecorded(Last.tapeBefore, Last.start, Last.end))
    /\ (hist # <<>> /\ Last.name = "append") =>
          ReplayResults(tape)
              = ReplayResults(RecordRange(Last.tapeBefore, Last.helperBefore,
                                          Last.start, Last.end))

\* The first of three statements was erased; the kept statements have
\* arguments, so the replay of the edited tape changes the vector.
W9_ErasedAndReplayed ==
    /\ Erased
    /\ StmtCount(Last.tapeBefore) = 3
    /\ Last.start = 0 /\ Last.end = 1
    /\ IsOrdinary(tape.stmt[1]) /\ tape.stmt[1].n = 2
    /\ IsOrdinary(tape.stmt[2]) /\ tape.stmt[2].n = 2
    /\ \E v \in SeedVectors : ReplayResults(tape)[v][3] # checkAdjointSize(v)

\* C10: append(srcTape, start, end) pushes, for every ordinary statement of
\* the source range and in source order, one statement with the same target
\* and argument count followed by the same Jacobian entries in the same
\* order; the destination grows by exactly the statements and Jacobian
\* entries of the range.
C10_AppendStatements ==
    (hist # <<>> /\ Last.name = "append") =>
        LET src == Last.helperBefore
            dst0 == Last.tapeBefore
            n0 == StmtCount(dst0)
        IN  /\ StmtCount(tape) = n0 + (Last.end - Last.start)
            /\ Len(tape.jac)
                   = Len(dst0.jac) + PosAt(src, Last.end).jac - PosAt(src, Last.start).jac
            /\ \A j \in 1..(Last.end - Last.start) :
                  IsOrdinary(src.stmt[Last.start + j]) =>
                      /\ tape.stmt[n0 + j] = src.stmt[Last.start + j]
                      /\ Slice(tape.jac, PosAt(tape, n0 + j - 1).jac, PosAt(tape, n0 + j).jac)
                             = ArgsOf(src, Last.start + j)

\* Two ordinary statements with different Jacobian entries were appended in
\* one call.
W10_AppendedStatements ==
    /\ hist # <<>> /\ Last.name = "append"
    /\ Last.start = 0 /\ Last.end = 2
    /\ IsOrdinary(helper.stmt[1]) /\ IsOrdinary(helper.stmt[2])
    /\ helper.stmt[1].n = 2 /\ helper.stmt[2].n = 2
    /\ ArgsOf(helper, 1) # ArgsOf(helper, 2)

(***************************************************************************)
(* Active variables and gradient access (SpecAccess)                       *)
(***************************************************************************)
\* Largest identifier handed to the tape's gradient access directly.
MaxIdentifier == 2

\* The gradient values a caller sets.
Gradients == {1, 2}

NotRecording ==
    UNCHANGED <<tape, helper, pc, cur, endPos, llfCalls, helperAdjoints, adjointsCalls,
                visited>>

\* init(): the variable is activated with an identifier of the index manager.
LhsInit(v) ==
    /\ live[v] = InactiveIndex
    /\ LET g == generate(indexManager)
       IN  /\ indexManager' = g.im
           /\ live' = [live EXCEPT ![v] = g.index]
           /\ hist' = <<[name |-> "init", variable |-> v, index |-> g.index,
                         liveBefore |-> live, managerBefore |-> indexManager]>>
    /\ access' = NoAccess
    /\ UNCHANGED adjoints
    /\ NotRecording

\* destroy(): the identifier of the variable is freed.
LhsDestroy(v) ==
    /\ live[v] # InactiveIndex
    /\ indexManager' = free(indexManager, live[v])
    /\ live' = [live EXCEPT ![v] = InactiveIndex]
    /\ hist' = <<[name |-> "destroy", variable |-> v, index |-> live[v],
                  liveBefore |-> live, managerBefore |-> indexManager]>>
    /\ access' = NoAccess
    /\ UNCHANGED adjoints
    /\ NotRecording

\* The set that came right before this access, if one did.
PrecedingSet ==
    IF access.op \in {"setGradient", "LhsSetGradient"}
    THEN [op |-> access.op, id |-> access.id, value |-> access.value,
          boundsChecking |-> access.boundsChecking, sizeBefore |-> access.sizeBefore,
          fault |-> access.fault]
    ELSE NoAccess

AccessRecord(op, identifier, value, boundsChecking, r) ==
    [op |-> op, id |-> identifier, value |-> value, boundsChecking |-> boundsChecking,
     result |-> r.result, fault |-> r.fault, sizeBefore |-> Len(adjoints),
     afterSet |-> PrecedingSet]

Accessed(op, identifier, value, boundsChecking, r) ==
    /\ adjoints' = r.adj
    /\ access' = AccessRecord(op, identifier, value, boundsChecking, r)
    /\ hist' = <<>>
    /\ UNCHANGED <<indexManager, live>>
    /\ NotRecording

\* tape.setGradient(identifier, gradient, boundsChecking)
SetGradient(identifier, value, boundsChecking) ==
    Accessed("setGradient", identifier, value, boundsChecking,
             setGradient(adjoints, identifier, value, boundsChecking))

\* tape.getGradient(identifier, boundsChecking)
GetGradient(identifier, boundsChecking) ==
    Accessed("getGradient", identifier, "none", boundsChecking,
             getGradient(adjoints, identifier, boundsChecking))

\* tape.gradient(identifier, boundsChecking): the slot the reference names.
GradientReference(identifier, boundsChecking) ==
    LET r == gradient(adjoints, identifier, boundsChecking)
    IN  Accessed("gradient", identifier, "none", boundsChecking,
                 [adj |-> r.adj, result |-> IF r.fault THEN "none" ELSE r.slot,
                  fault |-> r.fault])

\* const tape.gradient(identifier, boundsChecking): the slot the reference names.
GradientConstReference(identifier, boundsChecking) ==
    LET r == gradientConst(adjoints, identifier, boundsChecking)
    IN  Accessed("gradientConst", identifier, "none", boundsChecking,
                 [adj |-> r.adj, result |-> IF r.fault THEN "none" ELSE r.slot,
                  fault |-> r.fault])

\* v.setGradient(g)
VariableSetGradient(v, value) ==
    Accessed("LhsSetGradient", live[v], value, "True",
             LhsSetGradient(adjoints, live[v], value))

\* v.getGradient()
VariableGetGradient(v) ==
    Accessed("LhsGetGradient", live[v], "none", "True",
             LhsGetGradient(adjoints, live[v]))

NextAccess ==
    \/ \E v \in Variables : LhsInit(v)
    \/ \E v \in Variables : LhsDestroy(v)
    \/ \E id \in 0..MaxIdentifier, g \in Gradients, b \in BoundsChecking :
          SetGradient(id, g, b)
    \/ \E id \in 0..MaxIdentifier, b \in BoundsChecking : GetGradient(id, b)
    \/ \E id \in 0..MaxIdentifier, b \in BoundsChecking : GradientReference(id, b)
    \/ \E id \in 0..MaxIdentifier, b \in BoundsChecking : GradientConstReference(id, b)
    \/ \E v \in Variables, g \in Gradients : VariableSetGradient(v, g)
    \/ \E v \in Variables : VariableGetGradient(v)

SpecAccess == Init /\ [][NextAccess]_vars

Appended == hist # <<>> /\ Last.name = "append"

\* The offsets in the token and byte streams after the first k statements of
\* tape t, summing the sizes the count call reports for every block.
RECURSIVE BlockOffsets(_, _)
BlockOffsets(t, k) ==
    IF k = 0 THEN [token |-> 0, fixed |-> 0, dyn |-> 0]
    ELSE LET b == BlockOffsets(t, k - 1)
         IN  IF IsOrdinary(t.stmt[k]) THEN b
             ELSE LET token == t.token[b.token + 1]
                      fixedSize == LlfFixedSize(token)
                      fixedBytes == Slice(t.fixed, b.fixed, b.fixed + fixedSize)
                  IN  [token |-> b.token + 1, fixed |-> b.fixed + fixedSize,
                       dyn |-> b.dyn + LlfDynamicSize(token, fixedBytes)]

\* C11: for every low level function block of the source range, append
\* pushes onto the destination one sentinel statement with the same token
\* and a fixed and a dynamic byte range of the sizes the count call reports,
\* holding the block's source bytes byte for byte; the source cursors of the
\* walk end exactly past the last block.
C11_AppendLowLevelFunctions ==
    Appended =>
        LET src == Last.helperBefore
            dst0 == Last.tapeBefore
            n0 == StmtCount(dst0)
            p1 == BlockOffsets(src, Last.start)
            p2 == BlockOffsets(src, Last.end)
            walk == internalAppend(src, [dst |-> dst0, cur |-> PosAt(src, Last.start)],
                                   Last.end)
        IN  /\ walk.cur.token = p2.token
            /\ walk.cur.fixed = p2.fixed
            /\ walk.cur.dyn = p2.dyn
            /\ StmtCount(tape) = n0 + (Last.end - Last.start)
            /\ tape.token = dst0.token \o Slice(src.token, p1.token, p2.token)
            /\ tape.fixed = dst0.fixed \o Slice(src.fixed, p1.fixed, p2.fixed)
            /\ tape.dyn = dst0.dyn \o Slice(src.dyn, p1.dyn, p2.dyn)
            /\ \A j \in 1..(Last.end - Last.start) :
                  ~IsOrdinary(src.stmt[Last.start + j]) =>
                      LET s0 == BlockOffsets(src, Last.start + j - 1)
                          s1 == BlockOffsets(src, Last.start + j)
                          d0 == BlockOffsets(tape, n0 + j - 1)
                          d1 == BlockOffsets(tape, n0 + j)
                          token == src.token[s1.token]
                      IN  /\ tape.stmt[n0 + j].n = StatementLowLevelFunctionTag
                          /\ tape.token[d1.token] = token
                          /\ d1.fixed - d0.fixed = LlfFixedSize(token)
                          /\ Slice(tape.fixed, d0.fixed, d1.fixed)
                                 = Slice(src.fixed, s0.fixed, s1.fixed)
                          /\ d1.dyn - d0.dyn
                                 = LlfDynamicSize(token, Slice(src.fixed, s0.fixed, s1.fixed))
                          /\ Slice(tape.dyn, d0.dyn, d1.dyn)
                                 = Slice(src.dyn, s0.dyn, s1.dyn)

\* Two blocks with different tokens, one of them with dynamic bytes, were
\* appended in one call, the block with dynamic bytes last.
W11_AppendedTwoBlocks ==
    /\ Appended
    /\ Last.start = 0 /\ Last.end = 2
    /\ ~IsOrdinary(helper.stmt[1]) /\ ~IsOrdinary(helper.stmt[2])
    /\ helper.token = <<2, 1>>
    /\ Len(tape.dyn) > 0
    /\ tape.fixed = helper.fixed

IsPrefix(a, b) == Len(a) <= Len(b) /\ SubSeq(b, 1, Len(a)) = a

\* C12: append(srcTape, start, end) with a source tape other than the
\* destination leaves unchanged the source tape's streams and position, the
\* content the destination held before the call (it stays as a prefix of
\* every stream), and the adjoint vectors of both tapes.
C12_AppendFrame ==
    Appended =>
        /\ helper = Last.helperBefore
        /\ getPosition(helper) = getPosition(Last.helperBefore)
        /\ IsPrefix(Last.tapeBefore.stmt, tape.stmt)
        /\ IsPrefix(Last.tapeBefore.jac, tape.jac)
        /\ IsPrefix(Last.tapeBefore.token, tape.token)
        /\ IsPrefix(Last.tapeBefore.fixed, tape.fixed)
        /\ IsPrefix(Last.tapeBefore.dyn, tape.dyn)
        /\ adjoints = Last.before
        /\ helperAdjoints = Last.helperAdjointsBefore

\* A low level function block with dynamic bytes was appended, by way of the
\* count call, to a destination that already held a statement with
\* arguments.
W12_AppendedOntoContent ==
    /\ Appended
    /\ Last.end > Last.start
    /\ StmtCount(Last.tapeBefore) > 0
    /\ Len(Last.tapeBefore.jac) > 0
    /\ ~IsOrdinary(helper.stmt[Last.end])
    /\ Len(tape.dyn) > Len(Last.tapeBefore.dyn)

\* The sum of the argument counts of the non-sentinel statements among the
\* first k statements of tape t.
RECURSIVE ArgumentSum(_, _)
ArgumentSum(t, k) ==
    IF k = 0 THEN 0
    ELSE ArgumentSum(t, k - 1) + (IF IsOrdinary(t.stmt[k]) THEN t.stmt[k].n ELSE 0)

\* The argument lists handed to store for target lhs.
StoredArgs(lhs) == {item.args : item \in {i \in EditStatementInputs : i.lhs = lhs}}

JacobianLayout(t) ==
    /\ Len(t.jac) = ArgumentSum(t, StmtCount(t))
    /\ \A k \in 1..StmtCount(t) :
          IsOrdinary(t.stmt[k]) =>
              /\ Slice(t.jac, ArgumentSum(t, k - 1), ArgumentSum(t, k)) \in StoredArgs(t.stmt[k].lhs)
              /\ Len(Slice(t.jac, ArgumentSum(t, k - 1), ArgumentSum(t, k))) = t.stmt[k].n

\* C13: after any sequence of store, pushLowLevelFunction, append, erase and
\* reset, the Jacobian stream of a tape is as long as the sum of the argument
\* counts of its non-sentinel statements, and the entries of the k-th
\* statement are the argumentCount entries that start at the sum of the
\* counts of the non-sentinel statements before it: they are an argument
\* list that store was handed for the statement's target.
C13_JacobianLayout == JacobianLayout(tape) /\ JacobianLayout(helper)

\* After an erase the tape holds a statement, a low level function block
\* and a statement with other Jacobian entries.
W13_LayoutAfterErase ==
    /\ hist # <<>> /\ Last.name = "erase"
    /\ Last.end > Last.start
    /\ StmtCount(tape) = 3
    /\ IsOrdinary(tape.stmt[1]) /\ ~IsOrdinary(tape.stmt[2]) /\ IsOrdinary(tape.stmt[3])
    /\ Slice(tape.jac, 0, 2) # Slice(tape.jac, 2, 4)

(***************************************************************************)
(* Properties of the index manager and of gradient access                  *)
(***************************************************************************)
Elements(seq) == {seq[i] : i \in 1..Len(seq)}

LiveIdentifiers(l) == {l[v] : v \in {u \in Variables : l[u] # InactiveIndex}}

Generated == hist # <<>> /\ Last.name = "init"

\* C14: with the reuse index manager, after any sequence of activations and
\* destructions, generate never returns 0 nor an identifier a live variable
\* holds, so no two live variables hold the same identifier; an identifier
\* that was issued before is reissued only after it was freed.
C14_LiveIdentifiersDistinct ==
    /\ \A u, v \in Variables :
          (u # v /\ live[u] # InactiveIndex) => live[u] # live[v]
    /\ Generated =>
          /\ Last.index # 0
          /\ Last.index \notin LiveIdentifiers(Last.liveBefore)
          /\ \/ Last.index > Last.managerBefore.largestCreatedIndex
             \/ Last.index \in Elements(Last.managerBefore.unusedIndices)

\* An identifier that was freed is reissued while the other variable is live.
W14_FreedIdentifierReissued ==
    /\ Generated
    /\ Last.index \in Elements(Last.managerBefore.unusedIndices)
    /\ LiveIdentifiers(Last.liveBefore) # {}
    /\ Cardinality(LiveIdentifiers(live)) = 2

\* One evaluation has finished; p is the upper end of its range.
OneEvaluationDone(name) == Finished(name) /\ Len(hist) = 1

\* The recorded tapes that hold at least p statements and agree with tape t
\* on the content before position p.
AgreeingTapes(t, p) ==
    {u \in RecordedTapes(MaxReplayStmts) :
        StmtCount(u) >= p /\ resetTo(u, PosAt(u, p)) = resetTo(t, PosAt(t, p))}

\* C15: replaying, forward or reverse, a range that ends at or before a
\* position p gives for every starting vector the same result whatever was
\* recorded after p, also statements that reuse an identifier of the range:
\* every tape that agrees on the content before p gives the result of the
\* tape evaluated.
C15_ReuseSafety ==
    /\ OneEvaluationDone("evaluateForward") =>
          \A u \in AgreeingTapes(tape, Last.end) :
              LET r == evaluateForward(u, Last.before, PosAt(u, Last.start),
                                       PosAt(u, Last.end))
              IN  adjoints = r.adj /\ llfCalls = r.calls
    /\ OneEvaluationDone("evaluateReverse") =>
          \A u \in AgreeingTapes(tape, Last.start) :
              LET r == evaluateReverse(u, Last.before, PosAt(u, Last.start),
                                       PosAt(u, Last.end))
              IN  adjoints = r.adj /\ llfCalls = r.calls

\* The first statement alone was replayed forward on a tape whose second
\* statement reuses (redefines) an identifier the first one reads, and the
\* replay changed the vector.
W15_ReplayedBeforeReuse ==
    /\ OneEvaluationDone("evaluateForward")
    /\ StmtCount(tape) = 2
    /\ Last.start = 0 /\ Last.end = 1
    /\ IsOrdinary(tape.stmt[1]) /\ IsOrdinary(tape.stmt[2])
    /\ \E j \in 1..Len(ArgsOf(tape, 1)) : ArgsOf(tape, 1)[j].id = tape.stmt[2].lhs
    /\ tape.stmt[1].lhs # tape.stmt[2].lhs
    /\ Cardinality(AgreeingTapes(tape, 1)) > 2
    /\ adjoints # checkAdjointSize(Last.before)

DefaultChecked(a) == a.op # "none" /\ a.boundsChecking = "True"

Beyond(a) == a.id >= a.sizeBefore

GetAfterSet ==
    /\ access.op \in {"getGradient", "LhsGetGradient"}
    /\ DefaultChecked(access)
    /\ access.afterSet.op # "none"
    /\ access.afterSet.boundsChecking = "True"
    /\ access.afterSet.id = access.id

\* C17: with default bounds checking, setGradient(id, g) followed at once by
\* getGradient(id) returns g, whether or not id was inside the vector before
\* the call, also through the shortcuts of an active variable.
C17_SetGetRoundTrip == GetAfterSet => access.result = access.afterSet.value

\* The shortcut getGradient() of a variable returned what its setGradient(g)
\* had stored in a slot that did not exist before.
W17_RoundTripBeyondVector ==
    /\ GetAfterSet
    /\ access.op = "LhsGetGradient"
    /\ access.afterSet.op = "LhsSetGradient"
    /\ access.afterSet.id >= access.afterSet.sizeBefore
    /\ access.result = 2

Evaluating == hist # <<>> /\ Last.name \in {"evaluateForward", "evaluateReverse"}

\* C18 as stated: when the argument count of a statement does not match the
\* Jacobian entries available in the evaluated range, replay stops in a fatal
\* error state instead of reading or writing adjoints: no evaluation is past
\* the Jacobian bound of its range while it runs, and none returns normally
\* without having reached it.
X18_MismatchIsFatal ==
    Evaluating =>
        /\ pc = "forward" => cur.jac <= endPos.jac
        /\ pc = "reverse" => cur.jac >= endPos.jac
        /\ pc = "idle" => cur.jac = endPos.jac

Cleared == hist # <<>> /\ Last.name = "clearAdjoints"

\* The positions of the calls named name in the sequence calls.
CallsNamed(calls, name) == {i \in 1..Len(calls) : calls[i].call = name}

\* C20: clearAdjoints with automatic adjoint management calls beginUse on
\* the adjoint vector before it reads the size or any slot and endUse after
\* its last slot write; there is exactly one beginUse and one endUse, and
\* nothing between them resizes the vector; with manual management it calls
\* neither.
C20_ClearAdjointsUseRegion ==
    Cleared =>
        LET calls == Tail(adjointsCalls)
            begins == CallsNamed(calls, "beginUse")
            ends == CallsNamed(calls, "endUse")
            uses == CallsNamed(calls, "size") \cup CallsNamed(calls, "write")
        IN  /\ adjointsCalls[1].adjointsManagement = "Automatic" =>
                  /\ begins = {1}
                  /\ ends = {Len(calls)}
                  /\ \A i \in uses : 1 < i /\ i < Len(calls)
            /\ adjointsCalls[1].adjointsManagement = "Manual" =>
                  begins = {} /\ ends = {}
            /\ CallsNamed(calls, "size") # {}
            /\ CallsNamed(calls, "resize") = {}
            /\ Len(adjoints) = Len(Last.before)

\* clearAdjoints with automatic management wrote two slots between beginUse
\* and endUse.
W20_ClearedInUseRegion ==
    /\ Cleared
    /\ adjointsCalls[1].adjointsManagement = "Automatic"
    /\ Cardinality(CallsNamed(Tail(adjointsCalls), "write")) = 2
    /\ adjoints # Last.before

(***************************************************************************)
(* Properties of the order of a replay pass                                *)
(***************************************************************************)
InReversePass == hist # <<>> /\ Last.name = "evaluateReverse"

\* The offsets, among the first n entries of the log v, of the ordinary
\* statements of tape t with target index.
TargetWrites(t, v, n, index) ==
    {j \in 1..n : IsOrdinary(t.stmt[v[j] + 1]) /\ t.stmt[v[j] + 1].lhs = index}

\* Statement offset k of tape t reads identifier index as an argument.
Reads(t, k, index) ==
    /\ IsOrdinary(t.stmt[k + 1])
    /\ \E j \in 1..Len(ArgsOf(t, k + 1)) : ArgsOf(t, k + 1)[j].id = index

\* C21 as stated: in one evaluateReverse pass each identifier is written as a
\* statement target at most once.
X21_TargetWrittenAtMostOnce ==
    InReversePass =>
        \A index \in 1..LargestCreatedIndex :
            Cardinality(TargetWrites(tape, visited, Len(visited), index)) <= 1

\* C21 amended: one evaluateReverse pass processes the statements of its
\* range one by one in decreasing recording order, so an identifier is
\* written as a statement target once for every statement of the range that
\* has it as its target (more than once when the identifier is reused or
\* updated in place), and at the moment a statement's target adjoint is read
\* and distributed every later-recorded statement of the range that reads
\* this target as an argument has already been processed.
C21_ReverseOrderComplete ==
    InReversePass =>
        /\ \A j \in 1..Len(visited) : visited[j] = Last.start - j
        /\ Len(visited) <= Last.start - Last.end
        /\ \A index \in 1..LargestCreatedIndex :
              Cardinality(TargetWrites(tape, visited, Len(visited), index))
                  = Cardinality({k \in (Last.start - Len(visited))..(Last.start - 1) :
                                    IsOrdinary(tape.stmt[k + 1])
                                        /\ tape.stmt[k + 1].lhs = index})
        /\ \A j \in 1..Len(visited) :
              IsOrdinary(tape.stmt[visited[j] + 1]) =>
                  \A k \in (visited[j] + 1)..(Last.start - 1) :
                      Reads(tape, k, tape.stmt[visited[j] + 1].lhs) =>
                          \E i \in 1..(j - 1) : visited[i] = k

\* A reverse pass over two statements has finished; the later statement
\* reads the target of the earlier one and updates it in place, so the
\* identifier was written as a target twice.
W21_ReusedTargetProcessedInOrder ==
    /\ InReversePass
    /\ pc = "idle"
    /\ Len(visited) = 2
    /\ Reads(tape, 1, tape.stmt[1].lhs)
    /\ tape.stmt[1].lhs = tape.stmt[2].lhs
    /\ adjoints # checkAdjointSize(Last.before)

(***************************************************************************)
(* Properties of positions                                                 *)
(***************************************************************************)
\* The positions getPosition() returned while tape t was recorded are in
\* recording order.
PositionsInOrder(t) ==
    /\ \A k \in 0..StmtCount(t) : NotAfter(getZeroPosition, PosAt(t, k))
    /\ \A k1, k2 \in 0..StmtCount(t) : k1 <= k2 => NotAfter(PosAt(t, k1), PosAt(t, k2))
    /\ PosAt(t, StmtCount(t)) = getPosition(t)

\* C22: the positions of one tape are ordered by recording order: a
\* recording operation (store, pushLowLevelFunction, append into the tape)
\* moves getPosition() up by the statements it records and moves no stream
\* offset down, so a position taken before recording operations is at or
\* before a position taken after them in every stream; getZeroPosition() is
\* at or before every position; a stream offset decreases only through
\* erase or reset.
C22_PositionsOrdered ==
    /\ [](PositionsInOrder(tape) /\ PositionsInOrder(helper))
    /\ [][LET p == getPosition(tape)
              q == getPosition(tape')
              op == hist'[1]
          IN  /\ op.name \in {"store", "pushLowLevelFunction"} =>
                    NotAfter(p, q) /\ q.stmt = p.stmt + 1
              /\ op.name = "append" =>
                    NotAfter(p, q) /\ q.stmt = p.stmt + (op.end - op.start)
              /\ op.name = "helperRecord" =>
                    /\ NotAfter(getPosition(helper), getPosition(helper'))
                    /\ getPosition(helper').stmt = getPosition(helper).stmt + 1
              /\ ~NotAfter(p, q) => op.name \in {"erase", "eraseWithHelper", "reset"}]_vars

\* A statement with arguments, a low level function block with dynamic
\* bytes and one more statement were recorded; the three positions differ in
\* every stream.
W22_ThreePositionsTaken ==
    /\ hist # <<>> /\ Last.name = "store"
    /\ StmtCount(tape) = 3
    /\ PosAt(tape, 1).jac > 0
    /\ PosAt(tape, 2).dyn > PosAt(tape, 1).dyn
    /\ PosAt(tape, 2).token > PosAt(tape, 1).token
    /\ PosAt(tape, 3).jac > PosAt(tape, 2).jac
    /\ getPosition(Last.tapeBefore) = PosAt(tape, 2)

(***************************************************************************)
(* Replay as a function of its inputs                                      *)
(***************************************************************************)
\* The ranges [from, to) of tape u, each with its stream content.
RangesOf(u) ==
    {[tape |-> u, from |-> r[1], to |-> r[2],
      content |-> Content(u, PosAt(u, r[1]), PosAt(u, r[2]))] :
        r \in {x \in (0..StmtCount(u)) \X (0..StmtCount(u)) : x[1] <= x[2]}}

\* Every range of every recorded tape.
AllRanges == UNION {RangesOf(u) : u \in RecordedTapes(MaxReplayStmts)}

\* The ranges that hold the stream content of the range [k1, k2) of tape t.
SameContent(t, k1, k2) ==
    {r \in AllRanges : r.content = Content(t, PosAt(t, k1), PosAt(t, k2))}

\* C23: replay is a function of its inputs: evaluateForward, evaluateReverse
\* and clearAdjoints leave every recorded stream and the tape position
\* unchanged, and an evaluation ends with the vector that an evaluation from
\* the same starting vector gives on any tape that holds the same stream
\* content in the range evaluated, whatever was evaluated before and
\* whatever the tapes hold outside the range.
C23_ReplayIsFunctionOfInputs ==
    /\ \A i \in 1..Len(hist) :
          /\ hist[i].tapeBefore = tape
          /\ hist[i].helperBefore = helper
          /\ getPosition(hist[i].tapeBefore) = getPosition(tape)
    /\ Finished("evaluateForward") =>
          \A r \in SameContent(tape, Last.start, Last.end) :
              adjoints = evaluateForward(r.tape, Last.before, PosAt(r.tape, r.from),
                                         PosAt(r.tape, r.to)).adj
    /\ Finished("evaluateReverse") =>
          \A r \in SameContent(tape, Last.end, Last.start) :
              adjoints = evaluateReverse(r.tape, Last.before, PosAt(r.tape, r.to),
                                         PosAt(r.tape, r.from)).adj

\* After an earlier evaluation, the first statement of a tape of two was
\* evaluated in reverse and changed the vector; another tape holds the same
\* statement as its second one, behind Jacobian entries of its own.
W23_SameRangeElsewhere ==
    /\ Finished("evaluateReverse")
    /\ Len(hist) = 2
    /\ StmtCount(tape) = 2
    /\ Last.start = 1 /\ Last.end = 0
    /\ adjoints # Last.before
    /\ hist[1].before # Last.before
    /\ \E r \in SameContent(tape, 0, 1) :
          r.from = 1 /\ PosAt(r.tape, 1).jac > 0 /\ r.tape # tape

(***************************************************************************)
(* Low level function statements and their callbacks                       *)
(***************************************************************************)
\* The number of sentinel statements among the first k statements of tape t.
SentinelCount(t, k) == Cardinality({j \in 1..k : ~IsOrdinary(t.stmt[j])})

\* The tokens recorded for the sentinel statements at the offsets [k1, k2) of
\* tape t, in recording order: the i-th sentinel statement has the i-th token.
RECURSIVE TokensRecorded(_, _, _)
TokensRecorded(t, k1, k2) ==
    IF k1 >= k2 THEN <<>>
    ELSE (IF IsOrdinary(t.stmt[k1 + 1]) THEN <<>>
          ELSE <<t.token[SentinelCount(t, k1 + 1)]>>)
             \o TokensRecorded(t, k1 + 1, k2)

Reversed(seq) == [i \in 1..Len(seq) |-> seq[Len(seq) + 1 - i]]

TokensOf(calls) == [i \in 1..Len(calls) |-> calls[i].token]

\* C24: pushLowLevelFunction pushes one statement with the sentinel argument
\* count and one token, so after any sequence of store,
\* pushLowLevelFunction, append, erase and reset a tape holds as many
\* sentinel statements as tokens; replaying any range of it invokes the
\* callback once per sentinel statement of the range and for no other
\* statement, with the token recorded for the statement, in recording order
\* in forward mode and in the opposite order in reverse mode.
C24_OneCallbackPerSentinel ==
    /\ SentinelCount(tape, StmtCount(tape)) = Len(tape.token)
    /\ SentinelCount(helper, StmtCount(helper)) = Len(helper.token)
    /\ (hist # <<>> /\ Last.name = "pushLowLevelFunction") =>
          /\ tape.stmt = Append(Last.tapeBefore.stmt,
                                [lhs |-> 0, n |-> StatementLowLevelFunctionTag])
          /\ Len(tape.token) = Len(Last.tapeBefore.token) + 1
    /\ \A k1, k2 \in 0..StmtCount(tape) :
          k1 <= k2 =>
              LET seed == ZeroVector(LargestCreatedIndex + 1)
                  f == evaluateForward(tape, seed, PosAt(tape, k1), PosAt(tape, k2))
                  r == evaluateReverse(tape, seed, PosAt(tape, k2), PosAt(tape, k1))
              IN  /\ TokensOf(f.calls) = TokensRecorded(tape, k1, k2)
                  /\ TokensOf(r.calls) = Reversed(TokensRecorded(tape, k1, k2))
                  /\ \A i \in 1..Len(f.calls) : f.calls[i].type = "Forward"
                  /\ \A i \in 1..Len(r.calls) : r.calls[i].type = "Reverse"
                  /\ Len(f.calls) = SentinelCount(tape, k2) - SentinelCount(tape, k1)

\* An erase left two low level function blocks with different tokens around
\* an ordinary statement, so the callbacks of a forward and of a reverse
\* replay come in different orders.
W24_TwoBlocksAfterErase ==
    /\ Erased
    /\ Last.end > Last.start
    /\ StmtCount(tape) = 3
    /\ ~IsOrdinary(tape.stmt[1]) /\ IsOrdinary(tape.stmt[2]) /\ ~IsOrdinary(tape.stmt[3])
    /\ tape.token = <<2, 1>>
    /\ TokensOf(evaluateReverse(tape, <<0>>, getPosition(tape), getZeroPosition).calls)
           = <<1, 2>>

(***************************************************************************)
(* Termination and the statements a walk visits                            *)
(***************************************************************************)
AtReturn == pc = "idle" /\ hist # <<>>

\* The offsets from, from + 1, ..., to - 1.
Upwards(from, to) == [j \in 1..(to - from) |-> from + j - 1]

\* The offsets from - 1, from - 2, ..., to.
Downwards(from, to) == [j \in 1..(from - to) |-> from - j]

\* No slot of vector before has another value in vector after, and the
\* slots added are zero.
SameSlots(before, after) ==
    /\ Len(after) >= Len(before)
    /\ \A i \in 1..Len(after) : after[i] = IF i <= Len(before) THEN before[i] ELSE 0

\* C25 as stated, for the statements visited: each of the five operations
\* visits every statement of its range exactly once, and no statement when
\* the range is empty.
X25_VisitsExactlyTheRange ==
    AtReturn =>
        /\ Len(visited) = (IF Last.start <= Last.end THEN Last.end - Last.start
                           ELSE Last.start - Last.end)
        /\ \A j \in 1..Len(visited) :
              /\ visited[j] >= (IF Last.start <= Last.end THEN Last.start ELSE Last.end)
              /\ visited[j] < (IF Last.start <= Last.end THEN Last.end ELSE Last.start)

\* What the operations have visited and left when they return.
VisitsAtReturn ==
    /\ Last.name \in {"evaluateForward", "appendToHelper"} =>
          visited = Upwards(Last.start, Last.end)
    /\ Last.name \in {"evaluateReverse", "clearAdjoints"} =>
          visited = Downwards(Last.start, Last.end)
    /\ Last.name = "appendToHelper" =>
          /\ helper = append(Last.helperBefore, tape, PosAt(tape, Last.start),
                             PosAt(tape, Last.end))
          /\ helper.stmt = Slice(tape.stmt, Last.start, Last.end)
    /\ Last.name = "erase" =>
          /\ visited = Upwards(Last.end, StmtCount(Last.tapeBefore))
                           \o Upwards(0, StmtCount(Last.tapeBefore) - Last.end)
          /\ tape = eraseWithTemporary(Last.tapeBefore, PosAt(Last.tapeBefore, Last.start),
                                       PosAt(Last.tapeBefore, Last.end))
          /\ helper = EmptyTape

EmptyRangeAtReturn ==
    Last.start = Last.end =>
        /\ Last.name # "erase" => visited = <<>>
        /\ Len(hist) = 1 => llfCalls = <<>>
        /\ SameSlots(Last.before, adjoints)
        /\ Len(Last.before) > LargestCreatedIndex => adjoints = Last.before
        /\ Last.name = "clearAdjoints" => CallsNamed(adjointsCalls, "write") = {}
        /\ tape = Last.tapeBefore
        /\ helper = Last.helperBefore

\* C25 amended: evaluateForward, evaluateReverse, clearAdjoints, append and
\* erase over a valid range always return; the first four visit every
\* statement of the range exactly once, in order, and erase visits every
\* statement of the tail [end, tape end) once to store it and once to append
\* it back, and no statement of the range erased; over an empty range the
\* first four visit no statement and invoke no callback, and all five leave
\* every slot of the adjoint vector and the recorded content as they were.
C25_WalksTerminate ==
    /\ (pc # "idle") ~> (pc = "idle")
    /\ [](AtReturn => (VisitsAtReturn /\ EmptyRangeAtReturn))

\* An erase of the first of two statements has returned after visiting the
\* second statement twice.
W25_EraseVisitedTail ==
    /\ AtReturn
    /\ Last.name = "erase"
    /\ Last.start = 0 /\ Last.end = 1
    /\ StmtCount(Last.tapeBefore) = 2
    /\ visited = <<1, 0>>
    /\ StmtCount(tape) = 1

(***************************************************************************)
(* The cursors of a walk                                                   *)
(***************************************************************************)
\* The position at which the running or last walk started.
WalkStart == PosAt(tape, Last.start)

Between(low, x, high) == low <= x /\ x <= high

\* C26: the cursors move in lockstep: while evaluateForward, evaluateReverse
\* or append walks a range bounded by two positions of the tape, the
\* Jacobian cursor stays between the Jacobian offsets of the two bounds and
\* all cursors are at the position that was taken at the statement cursor;
\* when all statements of the range are processed the Jacobian cursor is at
\* the Jacobian offset of the far bound (the end position in forward and
\* append, the earlier position in reverse), and so are the other cursors.
C26_CursorsInLockstep ==
    /\ pc \in {"forward", "append"} =>
          /\ Between(WalkStart.jac, cur.jac, endPos.jac)
          /\ cur = PosAt(tape, cur.stmt)
          /\ cur.stmt = endPos.stmt => cur = endPos
    /\ pc = "reverse" =>
          /\ Between(endPos.jac, cur.jac, WalkStart.jac)
          /\ cur = PosAt(tape, cur.stmt)
          /\ cur.stmt = endPos.stmt => cur = endPos
    /\ (AtReturn /\ Last.name \in {"evaluateForward", "evaluateReverse", "appendToHelper"}) =>
          /\ cur = endPos
          /\ cur.jac = PosAt(tape, Last.end).jac

\* The append of the second of two statements has processed its range: the
\* Jacobian cursor went from the offset of the start, which is not zero, to
\* the offset of the end.
W26_AppendWalkedJacobians ==
    /\ pc = "append"
    /\ StmtCount(tape) = 2
    /\ Last.start = 1 /\ Last.end = 2
    /\ cur.stmt = endPos.stmt
    /\ WalkStart.jac = 2
    /\ cur.jac = 4
    /\ Len(helper.jac) = 2

(***************************************************************************)
(* erase with a helper tape                                                *)
(***************************************************************************)
ErasedWithEmptyHelper ==
    hist # <<>> /\ Last.name = "eraseWithHelper" /\ Last.helperBefore = EmptyTape

\* C27: when the helper tape handed to erase(start, end, helper) is empty on
\* entry, the tape ends with the content erase(start, end) with its internal
\* temporary tape gives and the helper tape is empty again at return; so an
\* erase with the same helper tape that follows at once finds it empty and
\* gives that content again.
C27_EraseHelperReusable ==
    /\ [](ErasedWithEmptyHelper =>
            /\ tape = eraseWithTemporary(Last.tapeBefore,
                                         PosAt(Last.tapeBefore, Last.start),
                                         PosAt(Last.tapeBefore, Last.end))
            /\ helper = EmptyTape)
    /\ [][(ErasedWithEmptyHelper /\ hist'[1].name = "eraseWithHelper") =>
            /\ hist'[1].helperBefore = EmptyTape
            /\ tape' = eraseWithTemporary(tape, PosAt(tape, hist'[1].start),
                                          PosAt(tape, hist'[1].end))
            /\ helper' = EmptyTape]_vars

\* erase with an empty helper tape removed the first statement of a tape of
\* three whose tail holds a low level function block with dynamic bytes; the
\* helper tape held that tail during the call and is empty again.
W27_ErasedThroughHelper ==
    /\ ErasedWithEmptyHelper
    /\ Last.start = 0 /\ Last.end = 1
    /\ StmtCount(Last.tapeBefore) = 3
    /\ StmtCount(tape) = 2
    /\ Len(tape.dyn) > 0
    /\ Len(tape.jac) > 0
    /\ helper = EmptyTape

(***************************************************************************)
(* erase at the borders                                                    *)
(***************************************************************************)
\* C28: erase with an empty range (start = end) leaves the recorded content
\* of the tape and getPosition() as they were, and erase(start, tape end)
\* leaves exactly the content of [zero, start), which is the tape truncated
\* to start.
C28_EraseBorderCases ==
    Erased =>
        LET b == Last.tapeBefore
        IN  /\ Last.start = Last.end =>
                  tape = b /\ getPosition(tape) = getPosition(b)
            /\ Last.end = StmtCount(b) =>
                  /\ tape = Content(b, getZeroPosition, PosAt(b, Last.start))
                  /\ tape = resetTo(b, PosAt(b, Last.start))
                  /\ getPosition(tape) = PosAt(b, Last.start)

\* erase with an empty range in the middle of a tape of three: the tail, a
\* low level function block with dynamic bytes and a statement with
\* arguments, went to the helper tape and came back.
W28_ErasedNothingInTheMiddle ==
    /\ Erased
    /\ Last.start = 1 /\ Last.end = 1
    /\ StmtCount(tape) = 3
    /\ ~IsOrdinary(tape.stmt[2])
    /\ PosAt(tape, 2).dyn > PosAt(tape, 1).dyn
    /\ IsOrdinary(tape.stmt[3]) /\ tape.stmt[3].n = 2

(***************************************************************************)
(* Replay of statements that update a variable in place (SpecInPlace)      *)
(***************************************************************************)
\* Statements whose target keeps its identifier and is among the arguments,
\* once or twice, and one statement that reads their targets.
InPlaceInputs ==
    { [kind |-> "stmt", lhs |-> 3, args |-> <<Arg(5, 3), Arg(2, 4)>>],
      [kind |-> "stmt", lhs |-> 1, args |-> <<Arg(2, 1), Arg(3, 1)>>],
      [kind |-> "stmt", lhs |-> 4, args |-> <<Arg(1, 3), Arg(1, 1)>>] }

\* The tapes that recording at most n of them produces.
RECURSIVE InPlaceTapes(_)
InPlaceTapes(n) ==
    IF n = 0 THEN {EmptyTape}
    ELSE LET shorter == InPlaceTapes(n - 1)
         IN  shorter \cup {Record(t, item) : t \in shorter, item \in InPlaceInputs}

InitInPlace ==
    /\ tape \in InPlaceTapes(MaxReplayStmts)
    /\ helper = EmptyTape
    /\ adjoints \in SeedVectors
    /\ pc = "idle"
    /\ cur = getZeroPosition
    /\ endPos = getZeroPosition
    /\ llfCalls = <<>>
    /\ hist = <<>>
    /\ helperAdjoints = <<0>>
    /\ adjointsCalls = <<>>
    /\ indexManager = NewIndexManager
    /\ live = [v \in Variables |-> InactiveIndex]
    /\ access = NoAccess
    /\ visited = <<>>

SpecInPlace == InitInPlace /\ [][NextReplay]_vars

\* The target of the ordinary statement st is among its arguments args.
InPlace(st, args) ==
    IsOrdinary(st) /\ \E j \in 1..Len(args) : args[j].id = st.lhs

\* The sum of the partials of the entries of args whose identifier is index.
RECURSIVE PartialSum(_, _, _)
PartialSum(args, j, index) ==
    IF j > Len(args) THEN 0
    ELSE (IF args[j].id = index THEN args[j].jac ELSE 0) + PartialSum(args, j + 1, index)

\* C29: for a statement whose target is among its own arguments, a step of
\* evaluateForward writes to the target's slot the sum of partial * tangent
\* over the arguments with the target's tangent as it was before the
\* statement, and a step of evaluateReverse leaves in the target's slot
\* (sum of the partials of the arguments equal to the target) * (the target
\* adjoint as it was before the statement), and adds to every other slot its
\* partials times that same adjoint.
C29_InPlaceUpdate ==
    /\ [][(pc = "forward" /\ cur' # cur
              /\ InPlace(tape.stmt[cur.stmt + 1], ArgsOf(tape, cur.stmt + 1))) =>
            LET st == tape.stmt[cur.stmt + 1]
                args == ArgsOf(tape, cur.stmt + 1)
            IN  /\ adjoints'[st.lhs + 1] = WeightedSum(args, 1, adjoints)
                /\ \A i \in 1..Len(adjoints) :
                      i # st.lhs + 1 => adjoints'[i] = adjoints[i]]_vars
    /\ [][(pc = "reverse" /\ cur' # cur
              /\ InPlace(tape.stmt[cur.stmt], ArgsOf(tape, cur.stmt))) =>
            LET st == tape.stmt[cur.stmt]
                args == ArgsOf(tape, cur.stmt)
                read == adjoints[st.lhs + 1]
            IN  /\ adjoints'[st.lhs + 1] = PartialSum(args, 1, st.lhs) * read
                /\ \A i \in 1..Len(adjoints) :
                      i # st.lhs + 1 =>
                          adjoints'[i] = adjoints[i] + PartialSum(args, 1, i - 1) * read]_vars

\* A reverse step has processed a statement that has its target twice among
\* its arguments, with a target adjoint that was not zero: the slot holds
\* the sum of the two partials times that adjoint.
W29_InPlaceReverseActed ==
    /\ pc = "reverse"
    /\ Len(hist) = 1
    /\ cur.stmt = Last.start - 1
    /\ tape.stmt[cur.stmt + 1].lhs = 1
    /\ PartialSum(ArgsOf(tape, cur.stmt + 1), 1, 1) = 5
    /\ checkAdjointSize(Last.before)[1 + 1] = 3
    /\ adjoints[1 + 1] = 15

(***************************************************************************)
(* Forward and reverse replay of one tape                                  *)
(***************************************************************************)
AllOrdinary(t) == \A k \in 1..StmtCount(t) : IsOrdinary(t.stmt[k])

\* The identifier x whose unit vector is the vector v, if there is one.
SeededAt(v, x) == v = UnitVector(LargestCreatedIndex + 1, x)

\* The target of the last statement of tape t.
FinalTarget(t) == t.stmt[StmtCount(t)].lhs

WholeTapeDone(name) ==
    /\ OneEvaluationDone(name)
    /\ StmtCount(tape) > 0
    /\ AllOrdinary(tape)
    /\ IF name = "evaluateForward"
       THEN Last.start = 0 /\ Last.end = StmtCount(tape)
       ELSE Last.start = StmtCount(tape) /\ Last.end = 0

\* C30: forward and reverse replay of a tape of ordinary statements agree:
\* for an input identifier x and the final target z, the tangent of z after
\* evaluateForward over the whole tape from tangent(x) = 1, all others zero,
\* is the adjoint of x after evaluateReverse over the whole tape from
\* adjoint(z) = 1, all others zero.
C30_ForwardReverseAgree ==
    /\ WholeTapeDone("evaluateForward") =>
          \A x \in 1..LargestCreatedIndex :
              SeededAt(Last.before, x) =>
                  LET z == FinalTarget(tape)
                      r == evaluateReverse(tape, UnitVector(LargestCreatedIndex + 1, z),
                                           getPosition(tape), getZeroPosition)
                  IN  adjoints[z + 1] = r.adj[x + 1]
    /\ WholeTapeDone("evaluateReverse") =>
          \A x \in 1..LargestCreatedIndex :
              SeededAt(Last.before, FinalTarget(tape)) =>
                  LET f == evaluateForward(tape, UnitVector(LargestCreatedIndex + 1, x),
                                           getZeroPosition, getPosition(tape))
                  IN  adjoints[x + 1] = f.adj[FinalTarget(tape) + 1]

\* The forward replay of two statements from tangent(x) = 1 has finished;
\* the second statement updates the target of the first in place, and the
\* tangent of the final target is the product of two partials.
W30_ForwardOverReusedTarget ==
    /\ WholeTapeDone("evaluateForward")
    /\ SeededAt(Last.before, 1)
    /\ StmtCount(tape) = 2
    /\ tape.stmt[1].lhs = 3 /\ tape.stmt[2].lhs = 3
    /\ adjoints[3 + 1] = 15

====
